---- MODULE Spec2Model ----
(***************************************************************************)
(* Audit-core: request-scoped audit context (AsyncLocalStorage), the       *)
(* strict write path (writeAuditEvent), the best-effort write path         *)
(* (writeAutoAuditEvent), the scope resolver and GET /audit.               *)
(*                                                                         *)
(* Text that the code inspects character by character (HTTP method, path,  *)
(* entity kind, action, summary) is a sequence of one-character strings;   *)
(* identifiers that are only compared for equality (actor id, correlation  *)
(* id) are TLA+ strings.                                                   *)
(***************************************************************************)
EXTENDS Integers, Sequences, FiniteSets, TLC

VARIABLES
    pc,        \* per call chain: position of the dispatcher for that request
    bound,     \* AsyncLocalStorage: the stores of the als.run scopes each call chain is in, innermost last
    stores,    \* heap of the context objects created by withAuditContext
    exFrame,   \* per call chain: the writeAuditEvent call awaiting its insert
    nEx,       \* per call chain: number of writeAuditEvent calls started
    auFrame,   \* per call chain: the writeAutoAuditEvent calls (one slot per call)
    metaOf,    \* per call chain: the meta its withAuditContext call was given
    overlap,   \* per call chain: a write call began while another was in flight
    rows,      \* the audit_events table, in insert order
    resp       \* the response of GET /audit, when the last step was a GET

vars == <<pc, bound, stores, metaOf, exFrame, nEx, auFrame, overlap, rows, resp>>

----------------------------------------------------------------------------
(* Bounds *)

NumReqs == 2
MaxExplicit == 2
MaxAuto == 2
MaxNesting == 2

Reqs == 1..NumReqs

Max(a, b) == IF a >= b THEN a ELSE b

Min(a, b) == IF a <= b THEN a ELSE b

----------------------------------------------------------------------------
(* Text helpers: JavaScript string operations on character sequences *)

LowerLetters ==
    <<"a","b","c","d","e","f","g","h","i","j","k","l","m",
      "n","o","p","q","r","s","t","u","v","w","x","y","z">>

UpperLetters ==
    <<"A","B","C","D","E","F","G","H","I","J","K","L","M",
      "N","O","P","Q","R","S","T","U","V","W","X","Y","Z">>

IndexIn(alphabet, c) ==
    IF \E i \in DOMAIN alphabet : alphabet[i] = c
    THEN CHOOSE i \in DOMAIN alphabet : alphabet[i] = c
    ELSE 0

UpperChar(c) ==
    IF IndexIn(LowerLetters, c) > 0 THEN UpperLetters[IndexIn(LowerLetters, c)] ELSE c

LowerChar(c) ==
    IF IndexIn(UpperLetters, c) > 0 THEN LowerLetters[IndexIn(UpperLetters, c)] ELSE c

toUpperCase(s) == [i \in 1..Len(s) |-> UpperChar(s[i])]

toLowerCase(s) == [i \in 1..Len(s) |-> LowerChar(s[i])]

\* the JavaScript null / undefined of a text value; no text contains this element
NullStr == <<"null">>

\* the null of an identifier
NULL == "<null>"

endsWith(word, suffix) ==
    /\ Len(word) >= Len(suffix)
    /\ SubSeq(word, Len(word) - Len(suffix) + 1, Len(word)) = suffix

\* word.slice(0, -n)
sliceEnd(word, n) == SubSeq(word, 1, Len(word) - n)

POST == <<"P","O","S","T">>
PUT == <<"P","U","T">>
PATCH == <<"P","A","T","C","H">>
DELETE == <<"D","E","L","E","T","E">>
GET == <<"G","E","T">>


----------------------------------------------------------------------------
(* Derivation helpers of the automatic deriver *)

ToAction_read == <<"r","e","a","d">>
ToAction_created == <<"c","r","e","a","t","e","d">>
ToAction_updated == <<"u","p","d","a","t","e","d">>
ToAction_deleted == <<"d","e","l","e","t","e","d">>
Suffix_rejected == <<"_","r","e","j","e","c","t","e","d">>
Suffix_failed == <<"_","f","a","i","l","e","d">>
Kind_unknown == <<"u","n","k","n","o","w","n">>
ApiPrefix == <<"/","a","p","i","/">>

methodToAction_lowerCaseOnly(method) == toLowerCase(method)

methodToAction(method) ==
    LET m == toUpperCase(method) IN
    CASE m = GET -> ToAction_read
      [] m = POST -> ToAction_created
      [] m = PUT -> ToAction_updated
      [] m = PATCH -> ToAction_updated
      [] m = DELETE -> ToAction_deleted
      [] OTHER -> toLowerCase(method)

singularize_dropLastS(word) ==
    IF endsWith(word, <<"s">>) THEN sliceEnd(word, 1) ELSE word

singularize(word) ==
    IF endsWith(word, <<"i","e","s">>)
    THEN sliceEnd(word, 3) \o <<"y">>
    ELSE IF \/ endsWith(word, <<"s","e","s">>)
            \/ endsWith(word, <<"x","e","s">>)
            \/ endsWith(word, <<"z","e","s">>)
    THEN sliceEnd(word, 2)
    ELSE IF endsWith(word, <<"s">>) /\ ~endsWith(word, <<"s","s">>)
    THEN sliceEnd(word, 1)
    ELSE word

\* path.replace(/^\/api\//, '')
stripApiPrefix(path) ==
    IF Len(path) >= Len(ApiPrefix) /\ SubSeq(path, 1, Len(ApiPrefix)) = ApiPrefix
    THEN SubSeq(path, Len(ApiPrefix) + 1, Len(path))
    ELSE path

\* index of the first "/" of s, or Len(s) + 1
firstSlash(s) ==
    IF \E i \in 1..Len(s) : s[i] = "/"
    THEN CHOOSE i \in 1..Len(s) : s[i] = "/" /\ \A j \in 1..(i - 1) : s[j] # "/"
    ELSE Len(s) + 1

RECURSIVE splitSegments(_)
\* cleaned.split('/').filter(Boolean)
splitSegments(s) ==
    IF s = <<>> THEN <<>>
    ELSE LET i == firstSlash(s)
             head == SubSeq(s, 1, i - 1)
             rest == SubSeq(s, i + 1, Len(s))
         IN (IF head = <<>> THEN <<>> ELSE <<head>>) \o splitSegments(rest)

Digits == {"0","1","2","3","4","5","6","7","8","9"}

HexChars == Digits \cup {"a","b","c","d","e","f","A","B","C","D","E","F"}

numericPattern_never(seg) == FALSE

\* /^\d+$/
numericPattern(seg) == Len(seg) > 0 /\ \A i \in 1..Len(seg) : seg[i] \in Digits

\* /^[0-9a-f]{8}-[0-9a-f]{4}-[0-9a-f]{4}-[0-9a-f]{4}-[0-9a-f]{12}$/i
uuidPattern(seg) ==
    /\ Len(seg) = 36
    /\ \A i \in 1..36 :
          IF i \in {9, 14, 19, 24} THEN seg[i] = "-" ELSE seg[i] \in HexChars

extractEntityFromPath(path) ==
    LET segments == splitSegments(stripApiPrefix(path)) IN
    IF Len(segments) = 0 THEN [kind |-> Kind_unknown, id |-> NullStr]
    ELSE LET pathSegments == Tail(segments) IN
         IF Len(pathSegments) = 0 THEN [kind |-> segments[1], id |-> NullStr]
         ELSE LET lastSegment == pathSegments[Len(pathSegments)] IN
              IF uuidPattern(lastSegment) \/ numericPattern(lastSegment)
              THEN IF Len(pathSegments) >= 2
                   THEN [kind |-> singularize(pathSegments[Len(pathSegments) - 1]),
                         id |-> lastSegment]
                   ELSE [kind |-> segments[1], id |-> lastSegment]
              ELSE [kind |-> singularize(lastSegment), id |-> NullStr]

\* JavaScript truthiness of a nullable text value
truthy(s) == s # NullStr /\ s # <<>>

buildSummary(action, entityKind, entityId) ==
    LET actionVerb == IF action = <<>> THEN <<>>
                      ELSE <<UpperChar(action[1])>> \o Tail(action)
    IN IF truthy(entityId)
       THEN actionVerb \o <<" ">> \o entityKind \o <<" ", "(">> \o entityId \o <<")">>
       ELSE actionVerb \o <<" ">> \o entityKind


Whitespace == {" ", "\t", "\n", "\r"}

\* String.prototype.trim
trim(s) ==
    IF \A i \in 1..Len(s) : s[i] \in Whitespace THEN <<>>
    ELSE LET lo == CHOOSE i \in 1..Len(s) :
                      s[i] \notin Whitespace /\ \A j \in 1..(i - 1) : s[j] \in Whitespace
             hi == CHOOSE i \in 1..Len(s) :
                      s[i] \notin Whitespace /\ \A j \in (i + 1)..Len(s) : s[j] \in Whitespace
         IN SubSeq(s, lo, hi)

HintMaxLength == 160

truncateText(s) ==
    LET trimmed == trim(s) IN
    IF Len(trimmed) <= HintMaxLength THEN trimmed
    ELSE SubSeq(trimmed, 1, HintMaxLength - 1) \o <<"...">>

\* A response body is null, a string, or an object of which the fields the
\* deriver probes are kept (NullStr: absent or not a string).
\* size is the length of JSON.stringify(body).
NoBody ==
    [t |-> "null", str |-> NullStr, id |-> NullStr, error |-> NullStr,
     message |-> NullStr, detail |-> NullStr, excMessage |-> NullStr, excName |-> NullStr,
     size |-> 0]

StringBody(text) == [NoBody EXCEPT !.t = "string", !.str = text, !.size = Len(text) + 2]

\* the length of {"id":"...","error":"..."} with the fields that are present
objectSize(id, error) ==
    2 + (IF id = NullStr THEN 0 ELSE Len(id) + 7)
      + (IF error = NullStr THEN 0 ELSE Len(error) + 10)
      + (IF id # NullStr /\ error # NullStr THEN 1 ELSE 0)

ObjectBody(id, error) ==
    [NoBody EXCEPT !.t = "object", !.id = id, !.error = error, !.size = objectSize(id, error)]

\* an object with further fields, of serialized length n
LargeBody(n) == [NoBody EXCEPT !.t = "object", !.size = n]

PayloadMaxLength == 4000

\* a value of details.requestBody / details.responseBody: not set, the payload
\* itself, or the marker { _truncated, _originalLength, _preview }
NoPayload ==
    [set |-> FALSE, truncated |-> FALSE, originalLength |-> 0, previewLength |-> 0,
     value |-> NoBody]

fitsPayload_below(size) == size < PayloadMaxLength

\* str.length <= maxLength
fitsPayload(size) == size <= PayloadMaxLength

\* truncatePayload(payload), for a payload that is not null and can be serialized
truncatePayload(payload) ==
    IF fitsPayload(payload.size)
    THEN [NoPayload EXCEPT !.set = TRUE, !.value = payload]
    ELSE [NoPayload EXCEPT !.set = TRUE, !.truncated = TRUE,
                           !.originalLength = payload.size,
                           !.previewLength = IF payload.size < PayloadMaxLength
                                             THEN payload.size ELSE PayloadMaxLength]

\* JavaScript truthiness of a body
bodyTruthy(body) ==
    \/ body.t = "object"
    \/ body.t = "string" /\ body.str # <<>>

RECURSIVE firstHint(_)
firstHint(candidates) ==
    IF candidates = <<>> THEN NullStr
    ELSE IF Head(candidates) # NullStr /\ trim(Head(candidates)) # <<>>
    THEN trim(Head(candidates))
    ELSE firstHint(Tail(candidates))

extractErrorHint(responseBody) ==
    IF responseBody.t = "null" THEN NullStr
    ELSE IF responseBody.t = "string"
    THEN (IF trim(responseBody.str) # <<>> THEN trim(responseBody.str) ELSE NullStr)
    ELSE firstHint(<<responseBody.error, responseBody.message, responseBody.detail,
                     responseBody.excMessage, responseBody.excName>>)

----------------------------------------------------------------------------
(* AuditContext: AsyncLocalStorage and the request context *)

\* als.getStore(): the store of the calling chain (0: none)
alsGetStore_shared(c) == Len(stores)

alsGetStore(c) == IF bound[c] = <<>> THEN 0 ELSE bound[c][Len(bound[c])]

\* getAuditContext() !== null
hasAuditContext(c) == alsGetStore(c) # 0

\* getAuditContext(), for a chain that has a context
getAuditContext(c) == stores[alsGetStore(c)]

getAuditWrites(c) == IF alsGetStore(c) = 0 THEN 0 ELSE stores[alsGetStore(c)].auditWrites

markIncrement_none(n) == n

\* store.auditWrites += 1
markIncrement(n) == n + 1

markAuditWrite_everyStore(c) ==
    [id \in DOMAIN stores |-> [stores[id] EXCEPT !.auditWrites = markIncrement(@)]]

\* the heap after markAuditWrite() in chain c
markAuditWrite(c) ==
    IF alsGetStore(c) = 0 THEN stores
    ELSE [stores EXCEPT ![alsGetStore(c)].auditWrites = markIncrement(@)]

newAuditContext_asGiven(meta) == meta

\* the context object withAuditContext builds: { ...meta, auditWrites: 0 }
newAuditContext(meta) == [meta EXCEPT !.auditWrites = 0]


----------------------------------------------------------------------------
(* Rows of audit_events and the values the two write paths insert *)

NoNum == -1

\* slowQueries: <<>> when details.slowQueries is not set
NoDetails ==
    [present |-> FALSE, responseStatus |-> NoNum, durationMs |-> NoNum,
     success |-> FALSE, isSlow |-> FALSE, requestBody |-> NoPayload,
     responseBody |-> NoPayload, slowQueries |-> <<>>]

coalesceId_contextFirst(a, b) == IF b # NULL THEN b ELSE a

\* a ?? b on identifiers and on text
coalesceId(a, b) == IF a # NULL THEN a ELSE b

coalesceText(a, b) == IF a # NullStr THEN a ELSE b

\* String(v), for a text value or undefined
toStringText(v) == IF v = NullStr THEN <<"u","n","d","e","f","i","n","e","d">> ELSE v

\* input.eventType != null && String(input.eventType).trim() ? ... : String(input.action)
eventTypeOf(input) ==
    IF input.eventType # NullStr /\ trim(input.eventType) # <<>>
    THEN trim(input.eventType)
    ELSE toStringText(input.action)

\* the values writeAuditEvent hands to insert(); ctxId is the store read by
\* getAuditContext() at the start of the call (0: no context)
writeAuditEventValues(input, ctxId, c) ==
    [entityKind |-> toStringText(input.entityKind),
     entityId |-> input.entityId,
     action |-> toStringText(input.action),
     summary |-> toStringText(input.summary),
     details |-> input.details,
     eventType |-> eventTypeOf(input),
     outcome |-> input.outcome,
     actorId |-> input.actorId,
     actorType |-> coalesceId(input.actorType, "user"),
     correlationId |-> coalesceId(input.correlationId,
                          IF ctxId = 0 THEN NULL ELSE stores[ctxId].correlationId),
     packName |-> coalesceId(input.packName,
                          IF ctxId = 0 THEN NULL ELSE stores[ctxId].packName),
     method |-> coalesceText(input.method,
                          IF ctxId = 0 THEN NullStr ELSE stores[ctxId].method),
     path |-> coalesceText(input.path,
                          IF ctxId = 0 THEN NullStr ELSE stores[ctxId].path),
     ipAddress |-> coalesceId(input.ipAddress,
                          IF ctxId = 0 THEN NULL ELSE stores[ctxId].ipAddress),
     userAgent |-> coalesceId(input.userAgent,
                          IF ctxId = 0 THEN NULL ELSE stores[ctxId].userAgent),
     by |-> "writeAuditEvent",
     req |-> c]

MutatingMethods == {POST, PUT, PATCH, DELETE}

SlowThresholdMs == 500

isSuccess(status) == status >= 200 /\ status < 300

isClientError_anyError(status) == status >= 400

isClientError(status) == status >= 400 /\ status < 500

\* ctx.method?.toUpperCase()
upperMethod(ctx) == IF ctx.method = NullStr THEN NullStr ELSE toUpperCase(ctx.method)

alreadyWritten_atLeastTwo(ctx) == ctx.auditWrites > 1

\* ctx.auditWrites > 0
alreadyWritten(ctx) == ctx.auditWrites > 0

isEligible_writesOnly(method, status) == method \in MutatingMethods

isEligible_errorsOnly(method, status) == status >= 400

\* isWrite || isError
isEligible(method, status) == method \in MutatingMethods \/ status >= 400

\* action from method and outcome
autoAction(method, status) ==
    IF isSuccess(status) THEN methodToAction(method)
    ELSE IF isClientError(status) THEN methodToAction(method) \o Suffix_rejected
    ELSE methodToAction(method) \o Suffix_failed

\* entity id: from the path, else from the body of a successful POST
autoEntityId(method, ctx, input) ==
    LET fromPath == extractEntityFromPath(ctx.path).id IN
    IF /\ method = POST
       /\ ~truthy(fromPath)
       /\ bodyTruthy(input.responseBody)
       /\ isSuccess(input.responseStatus)
       /\ input.responseBody.t = "object"
       /\ truthy(input.responseBody.id)
    THEN input.responseBody.id
    ELSE fromPath

isSlow_atThreshold(durationMs) ==
    durationMs # NoNum /\ durationMs # 0 /\ durationMs >= SlowThresholdMs

\* input.durationMs && input.durationMs > 500
isSlow(durationMs) ==
    durationMs # NoNum /\ durationMs # 0 /\ durationMs > SlowThresholdMs

TopSlowQueries == 5

RECURSIVE sortByDurationDesc(_)
\* [...list].sort((a, b) => b.durationMs - a.durationMs): a stable sort, so a
\* record goes behind the earlier records that are not faster
sortByDurationDesc(list) ==
    IF list = <<>> THEN <<>>
    ELSE LET x == list[Len(list)]
             rest == sortByDurationDesc(SubSeq(list, 1, Len(list) - 1))
             k == Cardinality({i \in DOMAIN rest : rest[i].durationMs >= x.durationMs})
         IN SubSeq(rest, 1, k) \o <<x>> \o SubSeq(rest, k + 1, Len(rest))

topSlowQueries_firstFive(list) == SubSeq(list, 1, Min(TopSlowQueries, Len(list)))

\* .slice(0, 5)
topSlowQueries(list) ==
    SubSeq(sortByDurationDesc(list), 1, Min(TopSlowQueries, Len(list)))

autoDetails(input) ==
    [present |-> TRUE,
     responseStatus |-> input.responseStatus,
     durationMs |-> input.durationMs,
     success |-> isSuccess(input.responseStatus),
     isSlow |-> isSlow(input.durationMs),
     requestBody |-> IF input.requestBody.t = "null" THEN NoPayload
                     ELSE truncatePayload(input.requestBody),
     responseBody |-> IF input.responseBody.t = "null" THEN NoPayload
                      ELSE truncatePayload(input.responseBody),
     slowQueries |-> IF Len(input.slowQueries) > 0 THEN topSlowQueries(input.slowQueries)
                     ELSE <<>>]

SummaryDash == <<" ", "-", " ">>

autoSummary(action, entityKind, entityId, input) ==
    LET base == buildSummary(action, entityKind, entityId)
        hint == extractErrorHint(input.responseBody)
    IN IF ~isSuccess(input.responseStatus) /\ truthy(hint)
       THEN base \o SummaryDash \o truncateText(hint)
       ELSE base

\* the values writeAutoAuditEvent hands to insert()
writeAutoAuditEventValues(ctx, input, c) ==
    LET method == upperMethod(ctx)
        action == autoAction(method, input.responseStatus)
        entityKind == extractEntityFromPath(ctx.path).kind
        entityId == autoEntityId(method, ctx, input)
    IN [entityKind |-> entityKind,
        entityId |-> entityId,
        action |-> action,
        summary |-> autoSummary(action, entityKind, entityId, input),
        details |-> autoDetails(input),
        eventType |-> NullStr,
        outcome |-> NULL,
        actorId |-> coalesceId(input.actorId, coalesceId(ctx.actorId, "system")),
        actorType |-> "user",
        correlationId |-> ctx.correlationId,
        packName |-> ctx.packName,
        method |-> ctx.method,
        path |-> ctx.path,
        ipAddress |-> ctx.ipAddress,
        userAgent |-> ctx.userAgent,
        by |-> "writeAutoAuditEvent",
        req |-> c]

\* a call inside the try block that throws before the insert is issued
derivationThrows(ctx) == ctx.path = NullStr


----------------------------------------------------------------------------
(* Call frames *)

NoRow ==
    [entityKind |-> NullStr, entityId |-> NullStr, action |-> NullStr,
     summary |-> NullStr, details |-> NoDetails, eventType |-> NullStr,
     outcome |-> NULL, actorId |-> NULL, actorType |-> NULL,
     correlationId |-> NULL, packName |-> NULL, method |-> NullStr,
     path |-> NullStr, ipAddress |-> NULL, userAgent |-> NULL,
     by |-> "none", req |-> 0]

NoExInput ==
    [entityKind |-> NullStr, entityId |-> NullStr, action |-> NullStr,
     summary |-> NullStr, details |-> NoDetails, eventType |-> NullStr,
     outcome |-> NULL, actorId |-> NULL, actorType |-> NULL,
     correlationId |-> NULL, packName |-> NULL, method |-> NullStr,
     path |-> NullStr, ipAddress |-> NULL, userAgent |-> NULL]

\* input and ctx: the argument of the call and the store getAuditContext() gave it
FreeEx ==
    [st |-> "free", input |-> NoExInput, ctx |-> 0, row |-> NoRow, store |-> "none",
     err |-> "none"]

NoAutoInput ==
    [responseStatus |-> 0, responseBody |-> NoBody, durationMs |-> NoNum, actorId |-> NULL,
     requestBody |-> NoBody, slowQueries |-> <<>>]

FreeAuto ==
    [st |-> "free", input |-> NoAutoInput, ctx |-> 0, writesAtCall |-> 0,
     ret |-> FALSE, why |-> "none", store |-> "none", err |-> "none"]

NoMeta == [correlationId |-> NULL, method |-> NullStr, path |-> NullStr]

\* a numeric query parameter that is absent, or present but not a number
ParamAbsent == -1000

ParamNaN == -1001

\* the query string: "" / <<>> for a parameter read with `|| ''` that is absent,
\* NullStr for minDuration and maxDuration when absent (searchParams.get gives null)
NoQuery ==
    [entityKind |-> <<>>, entityId |-> <<>>, action |-> <<>>, actorId |-> "",
     actorType |-> "", correlationId |-> "", packName |-> "", method |-> <<>>,
     eventType |-> <<>>, outcome |-> "", q |-> <<>>, page |-> ParamAbsent, pageSize |-> ParamAbsent,
     from |-> <<>>, to |-> <<>>, status |-> <<>>, minDuration |-> NullStr,
     maxDuration |-> NullStr]

NoResp ==
    [status |-> 0, error |-> "none", caller |-> NULL, grants |-> {}, mode |-> "unresolved",
     query |-> NoQuery, seen |-> 0, items |-> <<>>, page |-> 0, pageSize |-> 0,
     total |-> 0, totalPages |-> 0, orgTable |-> {}, probes |-> 0, queried |-> FALSE,
     auth |-> [xUserId |-> "", token |-> [kind |-> "none", sub |-> "", email |-> ""]]]

\* the store's possible failures of an insert
StoreErrors == {"E_unavailable", "E_rejected"}

InFlightEx(c) == exFrame[c].st = "insert"

InFlightAuto(c) == \E k \in 1..MaxAuto : auFrame[c][k].st = "pending"

----------------------------------------------------------------------------
(* Initial state *)

Init ==
    /\ pc = [c \in Reqs |-> "idle"]
    /\ bound = [c \in Reqs |-> <<>>]
    /\ stores = <<>>
    /\ metaOf = [c \in Reqs |-> NoMeta]
    /\ exFrame = [c \in Reqs |-> FreeEx]
    /\ nEx = [c \in Reqs |-> 0]
    /\ auFrame = [c \in Reqs |-> [k \in 1..MaxAuto |-> FreeAuto]]
    /\ overlap = [c \in Reqs |-> FALSE]
    /\ rows = <<>>
    /\ resp = NoResp

----------------------------------------------------------------------------
(* AuditContext actions *)

\* withAuditContext(meta, fn): als.run binds the chain to a fresh context
WithAuditContextEnter(c, meta) ==
    /\ pc[c] = "idle"
    /\ stores' = Append(stores, newAuditContext(meta))
    /\ bound' = [bound EXCEPT ![c] = Append(@, Len(stores) + 1)]
    /\ metaOf' = [metaOf EXCEPT ![c] =
                    [correlationId |-> meta.correlationId, method |-> meta.method,
                     path |-> meta.path]]
    /\ pc' = [pc EXCEPT ![c] = "handler"]
    /\ UNCHANGED <<exFrame, nEx, auFrame, overlap, rows>>
    /\ resp' = NoResp

\* a request handled outside any withAuditContext scope
DispatchWithoutContext(c) ==
    /\ pc[c] = "idle"
    /\ pc' = [pc EXCEPT ![c] = "handler"]
    /\ UNCHANGED <<bound, stores, metaOf, exFrame, nEx, auFrame, overlap, rows>>
    /\ resp' = NoResp

\* withAuditContext(meta, fn) called by code that already runs in a scope:
\* als.run binds the chain to a fresh context for the duration of fn
\* (at most MaxNesting scopes are opened in all)
WithAuditContextNestedEnter(c, meta) ==
    /\ pc[c] = "handler"
    /\ Len(bound[c]) >= 1
    /\ Len(stores) < MaxNesting
    /\ ~(exFrame[c].st = "insert")
    /\ stores' = Append(stores, newAuditContext(meta))
    /\ bound' = [bound EXCEPT ![c] = Append(@, Len(stores) + 1)]
    /\ UNCHANGED <<pc, metaOf, exFrame, nEx, auFrame, overlap, rows>>
    /\ resp' = NoResp

\* the inner fn has settled: als.run returns and the outer store is current again
WithAuditContextNestedExit(c) ==
    /\ pc[c] = "handler"
    /\ Len(bound[c]) >= 2
    /\ ~(exFrame[c].st = "insert")
    /\ bound' = [bound EXCEPT ![c] = SubSeq(@, 1, Len(@) - 1)]
    /\ UNCHANGED <<pc, stores, metaOf, exFrame, nEx, auFrame, overlap, rows>>
    /\ resp' = NoResp

\* the handler's promise settles; the dispatcher's post-processing starts
HandlerReturns(c) ==
    /\ pc[c] = "handler"
    /\ Len(bound[c]) <= 1
    /\ pc' = [pc EXCEPT ![c] = "post"]
    /\ UNCHANGED <<bound, stores, metaOf, exFrame, nEx, auFrame, overlap, rows>>
    /\ resp' = NoResp

\* fn has settled and no call is in flight: als.run returns, the scope ends
WithAuditContextExit(c) ==
    /\ pc[c] = "post"
    /\ ~InFlightEx(c)
    /\ ~InFlightAuto(c)
    /\ pc' = [pc EXCEPT ![c] = "done"]
    /\ bound' = [bound EXCEPT ![c] = SubSeq(@, 1, Len(@) - 1)]
    /\ UNCHANGED <<stores, metaOf, exFrame, nEx, auFrame, overlap, rows>>
    /\ resp' = NoResp

----------------------------------------------------------------------------
(* The audit_events table *)

dbInsert_upsert(table, values) ==
    IF table = <<>> THEN <<values>> ELSE [table EXCEPT ![Len(table)] = values]

\* db.insert(auditEvents).values(values), when the store accepts it
dbInsert(table, values) == Append(table, values)

----------------------------------------------------------------------------
(* AuditWriter: writeAuditEvent *)

\* the error the caller of writeAuditEvent receives when the insert fails with err
writeAuditEventRejection_wrapped(err) == "E_wrapped"

writeAuditEventRejection(err) == err

\* the call up to its await: read the context, build the values, issue the insert
WriteAuditEventCall(c, input, maxCalls) ==
    /\ pc[c] = "handler"
    /\ ~InFlightEx(c)
    /\ nEx[c] < maxCalls
    /\ exFrame' = [exFrame EXCEPT ![c] =
                     [FreeEx EXCEPT !.st = "insert", !.input = input, !.ctx = alsGetStore(c),
                                    !.row = writeAuditEventValues(input, alsGetStore(c), c)]]
    /\ nEx' = [nEx EXCEPT ![c] = @ + 1]
    /\ UNCHANGED <<pc, bound, stores, metaOf, auFrame, overlap, rows>>
    /\ resp' = NoResp

\* the insert settles: on success markAuditWrite() and the promise resolves,
\* on failure the promise rejects with the store's error
WriteAuditEventSettle(c, outcome) ==
    /\ InFlightEx(c)
    /\ IF outcome = "ok"
       THEN /\ rows' = dbInsert(rows, exFrame[c].row)
            /\ stores' = markAuditWrite(c)
            /\ exFrame' = [exFrame EXCEPT ![c] =
                             [FreeEx EXCEPT !.st = "resolved", !.store = "ok"]]
       ELSE /\ exFrame' = [exFrame EXCEPT ![c] =
                             [FreeEx EXCEPT !.st = "rejected", !.store = outcome,
                                            !.err = writeAuditEventRejection(outcome)]]
            /\ UNCHANGED <<rows, stores>>
    /\ UNCHANGED <<pc, bound, metaOf, nEx, auFrame, overlap>>
    /\ resp' = NoResp

----------------------------------------------------------------------------
(* AutoAuditDeriver: writeAutoAuditEvent *)

\* the slot of the next writeAutoAuditEvent call of chain c
nextAutoSlot(c) ==
    CHOOSE k \in 1..MaxAuto :
        auFrame[c][k].st = "free" /\ \A j \in 1..(k - 1) : auFrame[c][j].st # "free"

autoReturned(frame, ret, why) ==
    [frame EXCEPT !.st = "returned", !.ret = ret, !.why = why]

autoCatch_rethrow(frame, err) ==
    [frame EXCEPT !.st = "threw", !.why = "error", !.err = err]

\* catch (error) { console.error(...); return false; }
autoCatch(frame, err) ==
    [frame EXCEPT !.st = "returned", !.ret = FALSE, !.why = "error", !.err = err]

\* the call up to its first await: the eligibility checks
WriteAutoAuditEventCall(c, input, maxCalls) ==
    /\ pc[c] = "post"
    /\ \E k \in 1..maxCalls : auFrame[c][k].st = "free"
    /\ LET k == nextAutoSlot(c)
           called == [FreeAuto EXCEPT !.input = input, !.ctx = alsGetStore(c),
                                      !.writesAtCall = getAuditWrites(c)]
           frame ==
               IF ~hasAuditContext(c) THEN autoReturned(called, FALSE, "no-context")
               ELSE IF alreadyWritten(getAuditContext(c))
               THEN autoReturned(called, FALSE, "already-written")
               ELSE IF ~truthy(upperMethod(getAuditContext(c)))
               THEN autoReturned(called, FALSE, "no-method")
               ELSE IF ~isEligible(upperMethod(getAuditContext(c)), input.responseStatus)
               THEN autoReturned(called, FALSE, "not-eligible")
               ELSE [called EXCEPT !.st = "pending"]
       IN /\ auFrame' = [auFrame EXCEPT ![c][k] = frame]
          /\ overlap' = [overlap EXCEPT ![c] =
                           @ \/ (frame.st = "pending" /\ (InFlightEx(c) \/ InFlightAuto(c)))]
    /\ UNCHANGED <<pc, bound, stores, metaOf, exFrame, nEx, rows>>
    /\ resp' = NoResp

\* the rest of the call: import of the db module, derivation, insert, mark.
\* outcome: "ok", "import-failed" (the db module cannot be loaded) or a store error
WriteAutoAuditEventSettle(c, k, outcome) ==
    /\ auFrame[c][k].st = "pending"
    /\ LET frame == auFrame[c][k]
           ctx == stores[frame.ctx]
       IN IF outcome = "import-failed" \/ derivationThrows(ctx)
          THEN /\ auFrame' = [auFrame EXCEPT ![c][k] = autoCatch(frame, "E_import")]
               /\ UNCHANGED <<rows, stores>>
          ELSE IF outcome = "ok"
          THEN /\ rows' = dbInsert(rows, writeAutoAuditEventValues(ctx, frame.input, c))
               /\ stores' = markAuditWrite(c)
               /\ auFrame' = [auFrame EXCEPT ![c][k] =
                                autoReturned([frame EXCEPT !.store = "ok"], TRUE, "written")]
          ELSE /\ auFrame' = [auFrame EXCEPT ![c][k] =
                                autoCatch([frame EXCEPT !.store = outcome], outcome)]
               /\ UNCHANGED <<rows, stores>>
    /\ UNCHANGED <<pc, bound, metaOf, exFrame, nEx, overlap>>
    /\ resp' = NoResp

----------------------------------------------------------------------------
(* Identity extraction *)

NoUser == [present |-> FALSE, sub |-> ""]

NoToken == [kind |-> "none", sub |-> "", email |-> ""]

\* a || b on strings
orElse(a, b) == IF a # "" THEN a ELSE b

\* extractUserFromRequest: request.xUserId is the x-user-id header ("" when
\* absent); request.token is the token of the cookie or Authorization header:
\* none, malformed (not three parts, or an unreadable payload), expired, or valid
extractUserFromRequest(request) ==
    IF request.xUserId # "" THEN [present |-> TRUE, sub |-> request.xUserId]
    ELSE IF request.token.kind # "valid" THEN NoUser
    ELSE [present |-> TRUE, sub |-> orElse(request.token.sub, request.token.email)]

----------------------------------------------------------------------------
(* ScopeResolver *)

ScopeModes_leastRestrictiveFirst == <<"any", "ldd", "own", "none">>

\* const modes = ['none', 'own', 'ldd', 'any']
ScopeModes == <<"none", "own", "ldd", "any">>

\* `audit-core.${verb}.scope.${m}`
scopeKey(verb, m) == <<"audit-core", verb, "scope", m>>

\* checkAuditCoreAction(request, key).ok: the permission service's answer
checkAuditCoreAction(request, key) == key \in request.grants

RECURSIVE firstGranted(_, _, _)
firstGranted(request, verb, modes) ==
    IF modes = <<>> THEN "own"
    ELSE IF checkAuditCoreAction(request, scopeKey(verb, Head(modes))) THEN Head(modes)
    ELSE firstGranted(request, verb, Tail(modes))

resolveAuditCoreScopeMode(request, verb) == firstGranted(request, verb, ScopeModes)

RECURSIVE probeCount(_, _, _)
\* the number of checkAuditCoreAction calls the loop makes before it returns
probeCount(request, verb, modes) ==
    IF modes = <<>> THEN 0
    ELSE IF checkAuditCoreAction(request, scopeKey(verb, Head(modes))) THEN 1
    ELSE 1 + probeCount(request, verb, Tail(modes))

----------------------------------------------------------------------------
(* QueryFilterBuilder and GET /audit *)

DefaultPageSize == 25

MaxPageSize == 100

\* Number(param || d) || d, for a parameter that is absent, not a number, or an integer
numberOr(param, d) ==
    IF param = ParamAbsent \/ param = ParamNaN \/ param = 0 THEN d ELSE param

effectivePage(query) == Max(1, numberOr(query.page, 1))

effectivePageSize_uncapped(query) == Max(1, numberOr(query.pageSize, DefaultPageSize))

\* Math.min(100, Math.max(1, Number(pageSize || 25) || 25))
effectivePageSize(query) ==
    Min(MaxPageSize, Max(1, numberOr(query.pageSize, DefaultPageSize)))

\* Math.ceil(total / pageSize)
ceilDiv(total, pageSize) == (total + pageSize - 1) \div pageSize

RECURSIVE like(_, _)
\* text ILIKE pattern
like(pattern, text) ==
    IF pattern = <<>> THEN text = <<>>
    ELSE IF Head(pattern) = "%"
    THEN like(Tail(pattern), text) \/ (text # <<>> /\ like(pattern, Tail(text)))
    ELSE /\ text # <<>>
         /\ Head(pattern) = "_" \/ LowerChar(Head(pattern)) = LowerChar(Head(text))
         /\ like(Tail(pattern), Tail(text))

\* fetchUserOrgScopeIds: the caller's division, department and location ids
fetchUserOrgScopeIds(orgTable, userKey) ==
    [divisionIds |-> {a.divisionId : a \in {x \in orgTable : x.userKey = userKey /\ x.divisionId # ""}},
     departmentIds |-> {a.departmentId : a \in {x \in orgTable : x.userKey = userKey /\ x.departmentId # ""}},
     locationIds |-> {a.locationId : a \in {x \in orgTable : x.userKey = userKey /\ x.locationId # ""}}]

lddMatches_anyAssignment(orgTable, scopeIds, actorId) ==
    \E a \in orgTable : a.userKey = actorId

\* the exists-subqueries of the ldd branch, for the actor of one row
lddMatches(orgTable, scopeIds, actorId) ==
    \E a \in orgTable :
        /\ a.userKey = actorId
        /\ \/ a.divisionId \in scopeIds.divisionIds
           \/ a.departmentId \in scopeIds.departmentIds
           \/ a.locationId \in scopeIds.locationIds

scopeMatches_open(mode, sub, orgTable, row) == TRUE

\* the scope condition pushed to whereParts, evaluated on one row
scopeMatches(mode, sub, orgTable, row) ==
    CASE mode = "none" -> FALSE
      [] mode = "own" -> sub # "" /\ row.actorId = sub
      [] mode = "ldd" ->
            \/ sub # "" /\ row.actorId = sub
            \/ lddMatches(orgTable, fetchUserOrgScopeIds(orgTable, sub), row.actorId)
      [] OTHER -> TRUE

\* the user filters pushed to whereParts, evaluated on one row
filtersMatch(query, row) ==
    /\ trim(query.entityKind) # <<>> => row.entityKind = trim(query.entityKind)
    /\ trim(query.entityId) # <<>> => row.entityId = trim(query.entityId)
    /\ trim(query.action) # <<>> => row.action = trim(query.action)
    /\ query.actorId # "" => row.actorId = query.actorId
    /\ query.actorType # "" => row.actorType = query.actorType
    /\ query.correlationId # "" => row.correlationId = query.correlationId
    /\ query.packName # "" => row.packName = query.packName
    /\ trim(query.method) # <<>> => row.method = toUpperCase(trim(query.method))
    /\ trim(query.eventType) # <<>> => row.eventType = trim(query.eventType)
    /\ query.outcome # "" => row.outcome = query.outcome
    /\ trim(query.q) # <<>> => like(<<"%">> \o trim(query.q) \o <<"%">>, row.summary)

DigitChars == <<"0","1","2","3","4","5","6","7","8","9">>

RECURSIVE digitsValue(_)
\* the value of a sequence of decimal digits
digitsValue(ds) ==
    IF ds = <<>> THEN 0
    ELSE 10 * digitsValue(SubSeq(ds, 1, Len(ds) - 1)) + (IndexIn(DigitChars, ds[Len(ds)]) - 1)

\* Number(text) for white space, decimal integers and text that is no numeral
\* (ParamNaN: NaN); fractions, exponents, hex and Infinity are not covered
toNumber(text) ==
    LET t == trim(text) IN
    IF t = <<>> THEN 0
    ELSE IF numericPattern(t) THEN digitsValue(t)
    ELSE IF Head(t) \in {"-", "+"} /\ numericPattern(Tail(t))
    THEN (IF Head(t) = "-" THEN 0 - digitsValue(Tail(t)) ELSE digitsValue(Tail(t)))
    ELSE ParamNaN

\* value && !isNaN(Number(value)), for a parameter that may be null
isNumberParam(value) == value # NullStr /\ value # <<>> /\ toNumber(value) # ParamNaN

\* new Date(text).getTime() for a date of the form yyyy-mm-dd, counted in days
\* (months of 31 days; ParamNaN: NaN for every other text)
parseDate(text) ==
    IF /\ Len(text) = 10
       /\ text[5] = "-" /\ text[8] = "-"
       /\ \A i \in {1, 2, 3, 4, 6, 7, 9, 10} : text[i] \in Digits
       /\ digitsValue(SubSeq(text, 6, 7)) \in 1..12
       /\ digitsValue(SubSeq(text, 9, 10)) \in 1..31
    THEN (digitsValue(SubSeq(text, 1, 4)) * 12 + digitsValue(SubSeq(text, 6, 7)) - 1) * 31
            + digitsValue(SubSeq(text, 9, 10))
    ELSE ParamNaN

\* created_at (defaultNow) of the n-th inserted row: one insert a day from 2024-01-01 on
createdAt(n) == (2024 * 12) * 31 + n

Status_4xx == <<"4","x","x">>
Status_5xx == <<"5","x","x">>
Status_error == <<"e","r","r","o","r">>

status4xx_upTo500(s) == s >= 400 /\ s <= 500

\* (details->>'responseStatus')::int >= 400 AND (details->>'responseStatus')::int < 500
status4xx(s) == s >= 400 /\ s < 500

\* the status condition pushed to whereParts; a row without details.responseStatus
\* gives SQL NULL and is not selected
statusMatches(status, row) ==
    LET s == row.details.responseStatus
        known == row.details.present /\ s # NoNum
    IN IF status = Status_4xx THEN known /\ status4xx(s)
       ELSE IF status = Status_5xx THEN known /\ s >= 500
       ELSE IF status = Status_error THEN known /\ s >= 400
       ELSE IF status # <<>> /\ toNumber(status) # ParamNaN THEN known /\ s = toNumber(status)
       ELSE TRUE

\* the duration conditions pushed to whereParts
durationMatches(query, row) ==
    LET ms == row.details.durationMs
        known == row.details.present /\ ms # NoNum
    IN /\ isNumberParam(query.minDuration) => (known /\ ms >= toNumber(query.minDuration))
       /\ isNumberParam(query.maxDuration) => (known /\ ms <= toNumber(query.maxDuration))

\* the createdAt conditions pushed to whereParts
dateMatches(query, at) ==
    /\ (trim(query.from) # <<>> /\ parseDate(trim(query.from)) # ParamNaN)
          => at >= parseDate(trim(query.from))
    /\ (trim(query.to) # <<>> /\ parseDate(trim(query.to)) # ParamNaN)
          => at <= parseDate(trim(query.to))

\* the from, to, status, minDuration and maxDuration conditions on the n-th row
rangeMatches(query, n) ==
    /\ dateMatches(query, createdAt(n))
    /\ statusMatches(trim(query.status), rows[n])
    /\ durationMatches(query, rows[n])

whereMatches_any(scopeOk, filtersOk) == scopeOk \/ filtersOk

\* and(...whereParts)
whereMatches(scopeOk, filtersOk) == scopeOk /\ filtersOk

RECURSIVE selectDesc(_, _, _, _, _)
\* the rows of the table that satisfy the where clause, newest first
selectDesc(mode, sub, orgTable, query, n) ==
    IF n = 0 THEN <<>>
    ELSE (IF whereMatches(scopeMatches(mode, sub, orgTable, rows[n]),
                          filtersMatch(query, rows[n]) /\ rangeMatches(query, n))
          THEN <<rows[n]>> ELSE <<>>)
         \o selectDesc(mode, sub, orgTable, query, n - 1)

\* .limit(pageSize).offset(offset)
limitOffset(seq, pageSize, offset) ==
    SubSeq(seq, offset + 1, Min(Len(seq), offset + pageSize))

isUnauthorized_missingUserOnly(user) == ~user.present

\* !user || !user.sub
isUnauthorized(user) == ~user.present \/ user.sub = ""

\* the response of GET /audit
getAuditResponse(request) ==
    LET user == extractUserFromRequest(request) IN
    IF isUnauthorized(user)
    THEN [NoResp EXCEPT !.status = 401, !.error = "Unauthorized",
                        !.caller = IF user.present THEN user.sub ELSE NULL,
                        !.grants = request.grants, !.mode = "unresolved",
                        !.query = request.query, !.seen = Len(rows),
                        !.orgTable = request.orgTable,
                        !.auth = [xUserId |-> request.xUserId, token |-> request.token]]
    ELSE LET mode == resolveAuditCoreScopeMode(request, "read")
             page == effectivePage(request.query)
             pageSize == effectivePageSize(request.query)
             offset == (page - 1) * pageSize
             matched == selectDesc(mode, user.sub, request.orgTable, request.query, Len(rows))
         IN [status |-> 200, error |-> "none", caller |-> user.sub,
             grants |-> request.grants, mode |-> mode, query |-> request.query,
             seen |-> Len(rows),
             items |-> limitOffset(matched, pageSize, offset),
             page |-> page, pageSize |-> pageSize, total |-> Len(matched),
             totalPages |-> ceilDiv(Len(matched), pageSize),
             orgTable |-> request.orgTable,
             probes |-> probeCount(request, "read", ScopeModes),
             queried |-> TRUE,
             auth |-> [xUserId |-> request.xUserId, token |-> request.token]]

\* GET /audit: reads the table, changes nothing but the response
GetAudit(request) ==
    /\ resp' = getAuditResponse(request)
    /\ UNCHANGED <<pc, bound, stores, metaOf, exFrame, nEx, auFrame, overlap, rows>>

----------------------------------------------------------------------------
(* Inputs *)

Method_post == <<"p","o","s","t">>
Path_contacts_123 == <<"/","a","p","i","/","c","r","m","/","c","o","n","t","a","c","t","s","/","1","2","3">>
Path_contacts == <<"/","a","p","i","/","c","r","m","/","c","o","n","t","a","c","t","s">>
Kind_contact == <<"c","o","n","t","a","c","t">>
Kind_invoice == <<"i","n","v","o","i","c","e">>
Action_archived == <<"a","r","c","h","i","v","e","d">>
Summary_archived == <<"A","r","c","h","i","v","e","d"," ","c","o","n","t","a","c","t">>
Id_n1 == <<"n","1">>

CorrNames == <<"corr-1", "corr-2", "corr-3", "corr-4">>

\* the meta a dispatcher passes to withAuditContext; staleWrites is an
\* auditWrites value carried by the meta object
Meta(c, method, path, actorId, staleWrites) ==
    [correlationId |-> CorrNames[c], packName |-> "crm", method |-> method,
     path |-> path, actorId |-> actorId, ipAddress |-> "10.0.0.1",
     userAgent |-> "agent", auditWrites |-> staleWrites]

ExInput(entityKind, entityId, actorId) ==
    [NoExInput EXCEPT !.entityKind = entityKind, !.entityId = entityId,
                      !.action = Action_archived, !.summary = Summary_archived,
                      !.actorId = actorId]

AutoInput(status, body, durationMs, actorId) ==
    [responseStatus |-> status, responseBody |-> body, durationMs |-> durationMs,
     actorId |-> actorId, requestBody |-> NoBody, slowQueries |-> <<>>]

WithRequestBody(input, body) == [input EXCEPT !.requestBody = body]

AutoOutcomes == {"ok", "import-failed"} \cup StoreErrors

\* the steps of one request, for given sets of inputs and call limits
RequestStep(c, metas, exInputs, auInputs, outcomes, maxEx, maxAu) ==
    \/ \E meta \in metas : WithAuditContextEnter(c, meta)
    \/ DispatchWithoutContext(c)
    \/ \E input \in exInputs : WriteAuditEventCall(c, input, maxEx)
    \/ \E outcome \in outcomes \ {"import-failed"} : WriteAuditEventSettle(c, outcome)
    \/ HandlerReturns(c)
    \/ \E input \in auInputs : WriteAutoAuditEventCall(c, input, maxAu)
    \/ \E k \in 1..MaxAuto, outcome \in outcomes : WriteAutoAuditEventSettle(c, k, outcome)
    \/ WithAuditContextExit(c)

----------------------------------------------------------------------------
(* One request, all write-path inputs *)

OneMethods == {POST, Method_post, PUT, PATCH, DELETE, GET, <<>>}

OneStatuses == {200, 399, 400}

OneMetas == {Meta(1, m, Path_contacts_123, "u1", 0) : m \in OneMethods}

OneExInputs == {ExInput(Kind_contact, NullStr, "u1")}

OneAuInputs == {AutoInput(st, NoBody, NoNum, NULL) : st \in OneStatuses}

NextOne ==
    RequestStep(1, OneMetas, OneExInputs, OneAuInputs, AutoOutcomes, MaxExplicit, MaxAuto)

SpecOne == Init /\ [][NextOne]_vars

----------------------------------------------------------------------------
(* Concurrent requests, each in its own call chain *)

ConcCalls == 1

ConcMetas(c) ==
    {Meta(c, IF c = 1 THEN POST ELSE PUT, Path_contacts_123, "u1", 0)}

ConcOutcomes == {"ok", "E_unavailable"}

Next ==
    \E c \in Reqs :
        RequestStep(c, ConcMetas(c), OneExInputs, {AutoInput(200, NoBody, NoNum, NULL)},
                    ConcOutcomes, ConcCalls, ConcCalls)

Spec == Init /\ [][Next]_vars


----------------------------------------------------------------------------
(* One request whose handler fills the table, and GET /audit requests that read it *)

ScopeGrantKeys == {scopeKey("read", "none"), scopeKey("read", "own"),
                   scopeKey("read", "ldd"), scopeKey("read", "any")}

AuthNone == [xUserId |-> "", token |-> NoToken]

AuthHeader(sub) == [xUserId |-> sub, token |-> NoToken]

AuthToken(kind, sub, email) ==
    [xUserId |-> "", token |-> [kind |-> kind, sub |-> sub, email |-> email]]

ReadQueries ==
    {NoQuery,
     [NoQuery EXCEPT !.actorId = "u2"],
     [NoQuery EXCEPT !.entityKind = Kind_contact],
     [NoQuery EXCEPT !.method = Method_post],
     [NoQuery EXCEPT !.page = 2, !.pageSize = 1]}

NoOrg == {}

SharedDivisionOrg ==
    {[userKey |-> "u1", divisionId |-> "d1", departmentId |-> "", locationId |-> ""],
     [userKey |-> "u2", divisionId |-> "d1", departmentId |-> "", locationId |-> ""]}

DisjointDivisionOrg ==
    {[userKey |-> "u1", divisionId |-> "d1", departmentId |-> "", locationId |-> ""],
     [userKey |-> "u2", divisionId |-> "d2", departmentId |-> "", locationId |-> ""]}

\* the same id value used for a division of one user and a department of the other
CrossDimensionOrg ==
    {[userKey |-> "u1", divisionId |-> "x1", departmentId |-> "", locationId |-> ""],
     [userKey |-> "u2", divisionId |-> "", departmentId |-> "x1", locationId |-> ""]}

SharedLocationOrg ==
    {[userKey |-> "u1", divisionId |-> "d1", departmentId |-> "p1", locationId |-> "l1"],
     [userKey |-> "u2", divisionId |-> "d2", departmentId |-> "p2", locationId |-> "l1"]}

\* only the other user is assigned
ActorOnlyOrg ==
    {[userKey |-> "u2", divisionId |-> "d1", departmentId |-> "", locationId |-> ""]}

ReadOrgTables ==
    {NoOrg, SharedDivisionOrg, DisjointDivisionOrg, CrossDimensionOrg, SharedLocationOrg,
     ActorOnlyOrg}

ReadRequest(auth, grants, query, orgTable) ==
    [xUserId |-> auth.xUserId, token |-> auth.token, grants |-> grants, query |-> query,
     orgTable |-> orgTable]

ReadRequests ==
    \* every combination of grants
    {ReadRequest(AuthHeader("u1"), g, NoQuery, NoOrg) : g \in SUBSET ScopeGrantKeys}
    \* one granted mode, or own and any, with every caller and filter
    \cup {ReadRequest(auth, g, q, NoOrg) :
            auth \in {AuthHeader("u1"), AuthToken("valid", "u2", "u2@x")},
            g \in {{scopeKey("read", "own")}, {scopeKey("read", "none")},
                   {scopeKey("read", "own"), scopeKey("read", "any")}},
            q \in ReadQueries}
    \* organisational scope
    \cup {ReadRequest(auth, {scopeKey("read", "ldd")}, NoQuery, org) :
            auth \in {AuthHeader("u1"), AuthToken("valid", "u2", "u2@x")},
            org \in ReadOrgTables}
    \* callers without an identity
    \cup {ReadRequest(auth, {scopeKey("read", "any")}, NoQuery, NoOrg) :
            auth \in {AuthNone, AuthToken("valid", "", ""), AuthToken("expired", "u1", ""),
                      AuthToken("malformed", "", ""), AuthToken("valid", "", "u2@x")}}

ReadMetas == {Meta(1, Method_post, Path_contacts, "u1", 0)}

ReadExInputs ==
    {ExInput(Kind_contact, NullStr, "u1"), ExInput(Kind_invoice, NullStr, "u2"),
     ExInput(Kind_invoice, Id_n1, "u3")}

ReadAuInputs == {AutoInput(201, ObjectBody(Id_n1, NullStr), NoNum, NULL)}

NextRead ==
    \/ \E meta \in ReadMetas : WithAuditContextEnter(1, meta)
    \/ \E input \in ReadExInputs : WriteAuditEventCall(1, input, MaxExplicit)
    \/ WriteAuditEventSettle(1, "ok")
    \/ HandlerReturns(1)
    \/ WithAuditContextExit(1)
    \/ \E request \in ReadRequests : GetAudit(request)

SpecRead == Init /\ [][NextRead]_vars

----------------------------------------------------------------------------
(* Observations used by the properties *)

\* number of rows inserted by calls made in chain c
RowsOf(c) == Cardinality({i \in DOMAIN rows : rows[i].req = c})

AutoRowsOf(c) ==
    Cardinality({i \in DOMAIN rows : rows[i].req = c /\ rows[i].by = "writeAutoAuditEvent"})

AutoCalls(c) == Cardinality({k \in 1..MaxAuto : auFrame[c][k].st # "free"})

InContext(c) == pc[c] \in {"handler", "post"} /\ metaOf[c] # NoMeta

IsWriteRequest(c) ==
    metaOf[c] # NoMeta /\ toUpperCase(metaOf[c].method) \in {POST, PUT, PATCH, DELETE}

----------------------------------------------------------------------------
(* Explicit writes, and GET /audit requests that name a written event *)

\* an entity kind that ends with a space
Kind_padded == Kind_contact \o <<" ">>

TripExInputs ==
    {ExInput(Kind_contact, Id_n1, "u1"), ExInput(Kind_padded, Id_n1, "u1"),
     ExInput(Kind_invoice, NullStr, "u2")}

\* the query string that names the entity kind, entity id and action of an input
TripQuery(input) ==
    [NoQuery EXCEPT !.entityKind = input.entityKind,
                    !.entityId = IF input.entityId = NullStr THEN <<>> ELSE input.entityId,
                    !.action = input.action]

\* the same request method in lower and in upper case
TripMetas == ReadMetas \cup {Meta(1, POST, Path_contacts, "u1", 0)}

TripRequests ==
    {ReadRequest(AuthHeader("u1"), {scopeKey("read", "any")}, TripQuery(input), NoOrg) :
        input \in TripExInputs}
    \cup {ReadRequest(AuthHeader("u1"), {scopeKey("read", "any")},
                      [NoQuery EXCEPT !.method = m], NoOrg) :
             m \in {POST, Method_post, <<"P","o","s","t">>, PUT}}

NextTrip ==
    \/ RequestStep(1, TripMetas, TripExInputs, ReadAuInputs, ConcOutcomes,
                   MaxExplicit, MaxAuto)
    \/ \E request \in TripRequests : GetAudit(request)

SpecTrip == Init /\ [][NextTrip]_vars

----------------------------------------------------------------------------
(* A table filled by earlier requests, and GET /audit requests that page through it *)

\* the k-th event of the table: every third one was written by u2
PageRow(k) ==
    [writeAuditEventValues(ExInput(Kind_contact, Id_n1, IF k % 3 = 0 THEN "u2" ELSE "u1"), 0, 0)
        EXCEPT !.correlationId = ToString(k)]

PageTable(n) == [k \in 1..n |-> PageRow(k)]

PageTableSizes == {0, 1, 30, 45, 101}

PageParams == {ParamAbsent, ParamNaN, -1, 0, 1, 2, 4}

PageSizeParams == {ParamAbsent, ParamNaN, -5, 0, 1, 10, 100, 101}

PageRequests ==
    {ReadRequest(AuthHeader("u1"), {scopeKey("read", g)},
                 [NoQuery EXCEPT !.page = pg, !.pageSize = sz], NoOrg) :
        g \in {"any", "own"}, pg \in PageParams, sz \in PageSizeParams}

InitPage ==
    /\ pc = [c \in Reqs |-> "idle"]
    /\ bound = [c \in Reqs |-> <<>>]
    /\ stores = <<>>
    /\ metaOf = [c \in Reqs |-> NoMeta]
    /\ exFrame = [c \in Reqs |-> FreeEx]
    /\ nEx = [c \in Reqs |-> 0]
    /\ auFrame = [c \in Reqs |-> [k \in 1..MaxAuto |-> FreeAuto]]
    /\ overlap = [c \in Reqs |-> FALSE]
    /\ \E n \in PageTableSizes : rows = PageTable(n)
    /\ resp = NoResp

NextPage == \E request \in PageRequests : GetAudit(request)

SpecPage == InitPage /\ [][NextPage]_vars

----------------------------------------------------------------------------
(* One request, all inputs of the automatic derivation *)

Method_options == <<"O","P","T","I","O","N","S">>
Method_Head == <<"H","e","a","d">>

Id_123 == <<"1","2","3">>
Id_456 == <<"4","5","6">>
Id_uuid == <<"0","a","1","b","2","c","3","d","-","4","e","5","f","-","6","7","8","9","-","A","B","C","D","-","e","f","0","1","2","3","4","5","6","7","8","9">>

Path_entries_456 == <<"/","a","p","i","/","f","o","r","m","s","/","x","y","z","/","e","n","t","r","i","e","s","/","4","5","6">>
Path_folder_items == <<"/","a","p","i","/","v","a","u","l","t","/","f","o","l","d","e","r","s","/","a","b","c","/","i","t","e","m","s">>
Path_pack == <<"/","a","p","i","/","c","r","m">>
Path_pack_123 == <<"/","a","p","i","/","c","r","m","/","1","2","3">>
Path_contact_uuid == <<"/","a","p","i","/","c","r","m","/","c","o","n","t","a","c","t","s","/">> \o Id_uuid
Path_companies == <<"/","a","p","i","/","c","r","m","/","c","o","m","p","a","n","i","e","s">>
Path_boxes == <<"/","a","p","i","/","c","r","m","/","b","o","x","e","s">>
Path_cats == <<"/","a","p","i","/","c","r","m","/","c","a","t","s">>
Path_class == <<"/","a","p","i","/","c","r","m","/","c","l","a","s","s">>
Path_glasses == <<"/","a","p","i","/","c","r","m","/","g","l","a","s","s","e","s">>
Path_quizzes == <<"/","a","p","i","/","c","r","m","/","q","u","i","z","z","e","s">>
Path_series == <<"/","a","p","i","/","c","r","m","/","s","e","r","i","e","s">>
Path_bare == <<"/">>

DeriveMethods == {GET, POST, PUT, PATCH, DELETE, Method_post, Method_options, Method_Head}

DerivePaths ==
    {Path_contacts_123, Path_contacts, Path_entries_456, Path_folder_items, Path_pack,
     Path_pack_123, Path_contact_uuid, Path_companies, Path_boxes, Path_cats, Path_class,
     Path_glasses, Path_quizzes, Path_series, Path_bare}

DeriveStatuses == {199, 200, 299, 300, 399, 400, 499, 500, 503}

DeriveMetas ==
    {Meta(1, m, Path_contacts_123, "u1", 0) : m \in DeriveMethods}
    \cup {Meta(1, PUT, p, "u1", 0) : p \in DerivePaths}

\* serialized lengths around the truncation limit, and bodies of those lengths
DeriveSizes == {3999, 4000, 4001, 9000}

DeriveBodies == {NoBody, StringBody(<<>>)} \cup {LargeBody(n) : n \in DeriveSizes}

DeriveDurations == {NoNum, 0, 1, 499, 500, 501, 2000}

\* the slow sub-operations of a request: statement k took durations[k] ms
SlowQueries(durations) == [k \in DOMAIN durations |-> [query |-> k, durationMs |-> durations[k]]]

DeriveSlowQueries ==
    {SlowQueries(<<30>>),
     SlowQueries(<<10, 50, 20, 40, 30>>),
     SlowQueries(<<5, 60, 10, 50, 20, 40>>),
     SlowQueries(<<10, 20, 30, 40, 50, 60, 70>>),
     SlowQueries(<<20, 70, 20, 20, 90, 20, 20>>)}

WithSlowQueries(input, list) == [input EXCEPT !.slowQueries = list]

DeriveAuInputs ==
    {AutoInput(st, NoBody, NoNum, NULL) : st \in DeriveStatuses}
    \cup {WithRequestBody(AutoInput(200, res, NoNum, NULL), req) :
             req \in DeriveBodies, res \in DeriveBodies}
    \cup {AutoInput(200, NoBody, ms, NULL) : ms \in DeriveDurations}
    \cup {WithSlowQueries(AutoInput(200, NoBody, 900, NULL), list) : list \in DeriveSlowQueries}

\* every status for each method, one request for each path, and every body and
\* duration for PUT /api/crm/contacts/123
DeriveInputsFor(meta) ==
    IF meta = NoMeta \/ meta.path # Path_contacts_123
    THEN {AutoInput(200, NoBody, NoNum, NULL)}
    ELSE IF meta.method # PUT
    THEN {AutoInput(st, NoBody, NoNum, NULL) : st \in DeriveStatuses}
    ELSE DeriveAuInputs

NextDerive ==
    RequestStep(1, DeriveMetas, OneExInputs, DeriveInputsFor(metaOf[1]), {"ok"},
                ConcCalls, ConcCalls)

SpecDerive == Init /\ [][NextDerive]_vars

----------------------------------------------------------------------------
(* One request with nested scopes, and every way of supplying the fields of an event *)

Path_s == <<"/","a","p","i","/","c","r","m","/","s">>

\* a meta without the optional fields
BareMeta(c, method, path) ==
    [Meta(c, method, path, NULL, 0) EXCEPT !.packName = NULL, !.ipAddress = NULL,
                                           !.userAgent = NULL]

FieldMetas ==
    {Meta(1, POST, Path_contacts_123, "u1", 0),
     Meta(1, PUT, Path_contacts, "u1", 3),
     Meta(1, DELETE, Path_s, "u1", 0),
     BareMeta(1, POST, Path_contacts)}

NestedMetas == {Meta(2, PATCH, Path_boxes, "u2", 0), Meta(2, PATCH, Path_boxes, "u2", 2)}

\* an input that supplies each of the six fields the context can default
SuppliedExInput ==
    [ExInput(Kind_invoice, Id_n1, "u2") EXCEPT
        !.correlationId = "corr-x", !.packName = "vault", !.method = GET,
        !.path = Path_cats, !.ipAddress = "10.9.9.9", !.userAgent = "cli"]

\* an input that supplies two of them, one as the empty string
PartialExInput ==
    [ExInput(Kind_invoice, NullStr, "u2") EXCEPT !.packName = "", !.method = PATCH]

\* an input whose entityKind, action and summary are empty strings
EmptyExInput ==
    [ExInput(<<>>, NullStr, "u1") EXCEPT !.action = <<>>, !.summary = <<>>]

FieldExInputs ==
    {ExInput(Kind_contact, NullStr, "u1"), SuppliedExInput, PartialExInput, EmptyExInput}

FieldAuInputs == {AutoInput(200, NoBody, NoNum, NULL)}

NextFields ==
    \/ RequestStep(1, FieldMetas, FieldExInputs, FieldAuInputs, ConcOutcomes,
                   MaxExplicit, ConcCalls)
    \/ \E meta \in NestedMetas : WithAuditContextNestedEnter(1, meta)
    \/ WithAuditContextNestedExit(1)

SpecFields == Init /\ [][NextFields]_vars

----------------------------------------------------------------------------
(* A table of events with and without details, and GET /audit requests that filter it *)

FilterContext == newAuditContext(Meta(1, PUT, Path_contacts_123, "u1", 0))

\* the automatic event of a response with this status and duration
FilterRow(status, durationMs) ==
    writeAutoAuditEventValues(FilterContext, AutoInput(status, NoBody, durationMs, NULL), 0)

\* one explicit event, without details, and automatic events of every status class
FilterTable ==
    <<writeAuditEventValues(ExInput(Kind_contact, Id_n1, "u1"), 0, 0),
      FilterRow(200, 120), FilterRow(399, NoNum), FilterRow(400, 0), FilterRow(404, 501),
      FilterRow(499, 90), FilterRow(500, 2000), FilterRow(503, NoNum)>>

FilterTables == {<<>>, FilterTable, SubSeq(FilterTable, 1, 3), SubSeq(FilterTable, 4, 8)}

Text_abc == <<"a","b","c">>
Text_blank == <<" ">>
Text_404 == <<"4","0","4">>
Text_0 == <<"0">>
Text_100 == <<"1","0","0">>
Text_501 == <<"5","0","1">>
Date_jan03 == <<"2","0","2","4","-","0","1","-","0","3">>
Date_jan06 == <<"2","0","2","4","-","0","1","-","0","6">>
Date_month13 == <<"2","0","2","4","-","1","3","-","0","1">>

FilterStatuses ==
    {<<>>, Status_4xx, Status_5xx, Status_error, Text_404, <<" ">> \o Text_404, Text_abc,
     <<"4","X","X">>, Text_blank, <<"5","0","0">>, <<"2","0","0">>}

FilterDurations == {NullStr, <<>>, Text_0, Text_100, Text_501, Text_abc, Text_blank}

FilterDates == {<<>>, Date_jan03, Date_jan06, Date_month13, Text_abc, Text_blank}

FilterQueries ==
    {[NoQuery EXCEPT !.status = st] : st \in FilterStatuses}
    \cup {[NoQuery EXCEPT !.minDuration = lo, !.maxDuration = hi] :
             lo \in FilterDurations, hi \in FilterDurations}
    \cup {[NoQuery EXCEPT !.from = a, !.to = b] : a \in FilterDates, b \in FilterDates}
    \cup {[NoQuery EXCEPT !.status = st, !.minDuration = lo, !.from = a] :
             st \in {Status_error, Text_abc}, lo \in {Text_100, Text_abc},
             a \in {Date_jan06, Text_abc}}

FilterRequests ==
    {ReadRequest(AuthHeader("u1"), {scopeKey("read", g)}, q, NoOrg) :
        g \in {"any", "own"}, q \in FilterQueries}

InitFilter ==
    /\ pc = [c \in Reqs |-> "idle"]
    /\ bound = [c \in Reqs |-> <<>>]
    /\ stores = <<>>
    /\ metaOf = [c \in Reqs |-> NoMeta]
    /\ exFrame = [c \in Reqs |-> FreeEx]
    /\ nEx = [c \in Reqs |-> 0]
    /\ auFrame = [c \in Reqs |-> [k \in 1..MaxAuto |-> FreeAuto]]
    /\ overlap = [c \in Reqs |-> FALSE]
    /\ rows \in FilterTables
    /\ resp = NoResp

NextFilter == \E request \in FilterRequests : GetAudit(request)

SpecFilter == InitFilter /\ [][NextFilter]_vars

----------------------------------------------------------------------------
(* Properties *)

\* C1: in a context whose write counter is already >= 1, a writeAutoAuditEvent
\* call returns false at once, inserts no row and leaves every counter unchanged.
C1_AutoSkipsAfterWrite ==
    [][\A c \in Reqs, k \in 1..MaxAuto :
          (/\ auFrame[c][k].st = "free"
           /\ auFrame'[c][k].st # "free"
           /\ hasAuditContext(c)
           /\ getAuditWrites(c) >= 1)
          => (/\ auFrame'[c][k].st = "returned"
              /\ auFrame'[c][k].ret = FALSE
              /\ rows' = rows
              /\ stores' = stores)]_vars

C1_Witness ==
    \E c \in Reqs, k \in 1..MaxAuto :
        /\ auFrame[c][k].st = "returned"
        /\ auFrame[c][k].why = "already-written"
        /\ auFrame[c][k].writesAtCall = 1
        /\ getAuditWrites(c) = 1
        /\ RowsOf(c) = 1
        /\ \E i \in DOMAIN rows : rows[i].req = c /\ rows[i].by = "writeAuditEvent"

C3_AtMostOneAsStated ==
    \A c \in Reqs : metaOf[c] # NoMeta => RowsOf(c) <= 1

\* C3 amended: when the calls of a context are made one after another,
\* writeAutoAuditEvent inserts at most one row for it, and only as its first row.
C3_AtMostOneAuto ==
    \A c \in Reqs :
        (metaOf[c] # NoMeta /\ ~overlap[c])
        => /\ AutoRowsOf(c) <= 1
           /\ \A i \in DOMAIN rows :
                 (rows[i].req = c /\ rows[i].by = "writeAutoAuditEvent")
                 => \A j \in 1..(i - 1) : rows[j].req # c

C3_Witness ==
    \E c \in Reqs :
        /\ ~overlap[c]
        /\ auFrame[c][1].why = "written"
        /\ auFrame[c][2].why = "already-written"
        /\ AutoRowsOf(c) = 1

\* C4: a chain inside withAuditContext reads exactly the context created for it,
\* its counter counts exactly its own inserts, no two chains share a context,
\* and a chain outside any scope sees none.
C4_Isolation ==
    \A c \in Reqs :
        /\ InContext(c) =>
              /\ hasAuditContext(c)
              /\ getAuditContext(c).correlationId = metaOf[c].correlationId
              /\ getAuditContext(c).method = metaOf[c].method
              /\ getAuditContext(c).path = metaOf[c].path
              /\ getAuditWrites(c) = RowsOf(c)
              /\ \A d \in Reqs \ {c} : alsGetStore(d) # alsGetStore(c)
        /\ ~InContext(c) => ~hasAuditContext(c)

C4_Witness ==
    \E c, d \in Reqs :
        /\ c # d
        /\ InContext(c) /\ InContext(d)
        /\ getAuditContext(c).correlationId # getAuditContext(d).correlationId
        /\ getAuditContext(c).method # getAuditContext(d).method
        /\ getAuditWrites(c) = 1
        /\ getAuditWrites(d) = 0

\* C5: when the insert of writeAuditEvent settles, either it succeeded, one row
\* was added and the counter of the context grew by exactly one, or it failed,
\* the caller receives the store's error itself, and rows and counters are as before.
C5_StrictWrite ==
    [][\A c \in Reqs :
          (exFrame[c].st = "insert" /\ exFrame'[c].st # "insert")
          => \/ /\ exFrame'[c].st = "resolved"
                /\ exFrame'[c].store = "ok"
                /\ rows' = Append(rows, exFrame[c].row)
                /\ hasAuditContext(c) => getAuditWrites(c)' = getAuditWrites(c) + 1
                /\ \A id \in DOMAIN stores :
                      id # alsGetStore(c) => stores'[id] = stores[id]
             \/ /\ exFrame'[c].st = "rejected"
                /\ exFrame'[c].store \in StoreErrors
                /\ exFrame'[c].err = exFrame'[c].store
                /\ rows' = rows
                /\ stores' = stores]_vars

C5_Witness ==
    \E c \in Reqs :
        /\ exFrame[c].st = "rejected"
        /\ exFrame[c].err = "E_rejected"
        /\ hasAuditContext(c)
        /\ getAuditWrites(c) = 1
        /\ RowsOf(c) = 1

\* C6: a writeAutoAuditEvent call never ends by throwing; when the import or
\* the insert fails it returns false, and rows and counters are as before.
C6_AutoNeverThrows ==
    [][\A c \in Reqs, k \in 1..MaxAuto :
          /\ auFrame'[c][k].st \in {"free", "pending", "returned"}
          /\ (/\ auFrame[c][k].st = "pending"
              /\ auFrame'[c][k].st # "pending"
              /\ auFrame'[c][k].store # "ok")
             => (/\ auFrame'[c][k].st = "returned"
                 /\ auFrame'[c][k].ret = FALSE
                 /\ rows' = rows
                 /\ stores' = stores)]_vars

C6_Witness ==
    \E c \in Reqs, k \in 1..MaxAuto :
        /\ auFrame[c][k].st = "returned"
        /\ auFrame[c][k].why = "error"
        /\ auFrame[c][k].store \in StoreErrors
        /\ auFrame[c][k].ret = FALSE
        /\ hasAuditContext(c)
        /\ getAuditWrites(c) = 0
        /\ RowsOf(c) = 0

\* the outcome C7 is about: a call made with a context and a counter of 0 that
\* met no failure
C7_Case(f) == f.st = "returned" /\ f.ctx # 0 /\ f.writesAtCall = 0 /\ f.why # "error"

\* C7 as stated: such a call returns true iff the method is a write method
\* (any letter case) or the status is >= 400.
C7_EligibilityAsStated ==
    \A c \in Reqs, k \in 1..MaxAuto :
        C7_Case(auFrame[c][k])
        => (auFrame[c][k].ret
              <=> \/ toUpperCase(stores[auFrame[c][k].ctx].method) \in {POST, PUT, PATCH, DELETE}
                  \/ auFrame[c][k].input.responseStatus >= 400)

\* C7 amended: such a call returns true iff the method is not empty and either
\* is a write method (any letter case) or the status is >= 400; a row is
\* inserted exactly by the calls that return true.
C7_Eligibility ==
    \A c \in Reqs :
        /\ \A k \in 1..MaxAuto :
              C7_Case(auFrame[c][k])
              => (auFrame[c][k].ret
                    <=> /\ Len(stores[auFrame[c][k].ctx].method) > 0
                        /\ \/ toUpperCase(stores[auFrame[c][k].ctx].method)
                                 \in {POST, PUT, PATCH, DELETE}
                           \/ auFrame[c][k].input.responseStatus >= 400)
        /\ AutoRowsOf(c) = Cardinality({k \in 1..MaxAuto : auFrame[c][k].ret})

C7_Witness ==
    \E c \in Reqs, k \in 1..MaxAuto :
        /\ C7_Case(auFrame[c][k])
        /\ auFrame[c][k].ret
        /\ stores[auFrame[c][k].ctx].method = Method_post
        /\ auFrame[c][k].input.responseStatus = 200
        /\ AutoRowsOf(c) = 1



ModeRank(m) ==
    CASE m = "none" -> 0
      [] m = "own" -> 1
      [] m = "ldd" -> 2
      [] OTHER -> 3

\* the modes whose permission key the request of the response was granted
GrantedModes == {m \in {"none", "own", "ldd", "any"} : scopeKey("read", m) \in resp.grants}

\* C8: the resolved mode is the most restrictive granted mode (none before own
\* before ldd before any), own when nothing is granted, and any only when any
\* is the only mode granted.
C8_ScopePrecedence ==
    resp.status = 200 =>
        /\ GrantedModes = {} => resp.mode = "own"
        /\ GrantedModes # {} =>
              /\ resp.mode \in GrantedModes
              /\ \A m \in GrantedModes : ModeRank(resp.mode) <= ModeRank(m)
        /\ resp.mode = "any" <=> GrantedModes = {"any"}

C8_Witness ==
    /\ resp.status = 200
    /\ GrantedModes = {"own", "any"}
    /\ resp.mode = "own"

OwnRows(sub) == {i \in DOMAIN rows : rows[i].actorId = sub}

\* C9: under mode own every returned item is a stored row whose actor is the
\* caller, whatever the filters are, and the total never exceeds the number of
\* the caller's rows (it equals it when there is no filter).
C9_OwnScope ==
    (resp.status = 200 /\ resp.mode = "own") =>
        /\ \A i \in DOMAIN resp.items :
              /\ resp.items[i].actorId = resp.caller
              /\ \E j \in DOMAIN rows : rows[j] = resp.items[i]
        /\ resp.total <= Cardinality(OwnRows(resp.caller))
        /\ resp.query = NoQuery => resp.total = Cardinality(OwnRows(resp.caller))

C9_Witness ==
    /\ resp.status = 200
    /\ resp.mode = "own"
    /\ Len(resp.items) >= 1
    /\ \E i \in DOMAIN rows : rows[i].actorId # resp.caller
    /\ Cardinality(OwnRows(resp.caller)) >= 1

\* C10: a caller with an identity who is granted scope none gets a 200 response
\* with no items, total 0 and no error, whatever the table and the filters are.
C10_NoneScope ==
    (/\ resp.status # 0
     /\ resp.caller \notin {NULL, ""}
     /\ "none" \in GrantedModes)
    => /\ resp.status = 200
       /\ resp.error = "none"
       /\ resp.mode = "none"
       /\ resp.items = <<>>
       /\ resp.total = 0
       /\ resp.totalPages = 0

C10_Witness ==
    /\ resp.status = 200
    /\ resp.mode = "none"
    /\ resp.items = <<>>
    /\ Len(rows) >= 2
    /\ \E i \in DOMAIN rows : rows[i].actorId = resp.caller

\* users u and v have an assignment with the same division, the same department
\* or the same location
SharesAssignment(orgTable, u, v) ==
    \E a, b \in orgTable :
        /\ a.userKey = u
        /\ b.userKey = v
        /\ \/ a.divisionId # "" /\ a.divisionId = b.divisionId
           \/ a.departmentId # "" /\ a.departmentId = b.departmentId
           \/ a.locationId # "" /\ a.locationId = b.locationId

HasAssignment(orgTable, u) ==
    \E a \in orgTable :
        a.userKey = u /\ (a.divisionId # "" \/ a.departmentId # "" \/ a.locationId # "")

\* the rows the caller of the response may see under mode ldd
LddVisible ==
    {i \in DOMAIN rows :
        \/ rows[i].actorId = resp.caller
        \/ SharesAssignment(resp.orgTable, rows[i].actorId, resp.caller)}

\* C11: under mode ldd and no filter, the returned events are exactly those whose
\* actor is the caller or shares a division, department or location with the
\* caller; a caller with no assignment sees exactly the caller's own events.
C11_LddScope ==
    (resp.status = 200 /\ resp.mode = "ldd" /\ resp.query = NoQuery) =>
        /\ resp.total = Cardinality(LddVisible)
        /\ \A i \in DOMAIN rows :
              (i \in LddVisible) <=> (\E j \in DOMAIN resp.items : resp.items[j] = rows[i])
        /\ ~HasAssignment(resp.orgTable, resp.caller)
              => resp.total = Cardinality(OwnRows(resp.caller))

C11_Witness ==
    /\ resp.status = 200
    /\ resp.mode = "ldd"
    /\ resp.query = NoQuery
    /\ HasAssignment(resp.orgTable, resp.caller)
    /\ \E j \in DOMAIN resp.items : resp.items[j].actorId # resp.caller
    /\ \E i \in DOMAIN rows : i \notin LddVisible

\* the request of the response carries no caller identity: no x-user-id header
\* and no token, an unreadable or expired token, or a token with neither sub nor email
NoIdentity ==
    /\ resp.auth.xUserId = ""
    /\ \/ resp.auth.token.kind # "valid"
       \/ resp.auth.token.sub = "" /\ resp.auth.token.email = ""

\* C12: GET /audit answers 401 Unauthorized exactly to requests without a caller
\* identity, and then no permission key was probed, no mode resolved and the
\* table not queried.
C12_Unauthorized ==
    resp.status # 0 =>
        /\ NoIdentity <=> resp.status = 401
        /\ resp.status = 401 =>
              /\ resp.error = "Unauthorized"
              /\ resp.mode = "unresolved"
              /\ resp.probes = 0
              /\ ~resp.queried
              /\ resp.items = <<>>
        /\ resp.status # 401 => resp.status = 200 /\ resp.probes >= 1 /\ resp.queried

C12_Witness ==
    /\ resp.status = 401
    /\ resp.auth.token.kind = "valid"
    /\ resp.auth.token.sub = ""
    /\ scopeKey("read", "any") \in resp.grants
    /\ Len(rows) >= 1

\* the query of the response names exactly the entity kind, entity id and action
\* stored in row r, and nothing else
NamesRow(r) ==
    resp.query = [NoQuery EXCEPT !.entityKind = r.entityKind,
                                 !.entityId = IF r.entityId = NullStr THEN <<>> ELSE r.entityId,
                                 !.action = r.action]

Returned(r) == \E j \in DOMAIN resp.items : resp.items[j] = r

\* C13: an event stored by writeAuditEvent is returned to a caller of scope any
\* whose query names exactly its entityKind, entityId and action, and is not
\* returned when the query names another entityKind.
C13_RoundTrip ==
    \A i \in DOMAIN rows :
        (/\ rows[i].by = "writeAuditEvent"
         /\ resp.status = 200
         /\ resp.mode = "any"
         /\ resp.seen = Len(rows))
        => /\ NamesRow(rows[i]) => Returned(rows[i])
           /\ (resp.query.entityKind # <<>> /\ resp.query.entityKind # rows[i].entityKind)
                 => ~Returned(rows[i])

\* an event whose entityKind ends with a space is stored as written and is
\* missing from the answer to the query that names it
C13_Witness ==
    \E i \in DOMAIN rows :
        /\ rows[i].by = "writeAuditEvent"
        /\ rows[i].entityKind = Kind_padded
        /\ resp.status = 200
        /\ resp.mode = "any"
        /\ NamesRow(rows[i])
        /\ resp.total = 1
        /\ ~Returned(rows[i])

\* the same round trip for events whose entityKind, entityId and action have no
\* leading or trailing white space
C13_RoundTripTrimmed ==
    \A i \in DOMAIN rows :
        (/\ rows[i].by = "writeAuditEvent"
         /\ resp.status = 200
         /\ resp.mode = "any"
         /\ trim(rows[i].entityKind) = rows[i].entityKind
         /\ trim(rows[i].entityId) = rows[i].entityId
         /\ trim(rows[i].action) = rows[i].action)
        => /\ NamesRow(rows[i]) => Returned(rows[i])
           /\ (trim(resp.query.entityKind) # <<>>
               /\ trim(resp.query.entityKind) # rows[i].entityKind)
                 => ~Returned(rows[i])

\* the events that match the predicate of a response without user filters
PageMatching ==
    {i \in DOMAIN rows : resp.mode = "any" \/ (resp.mode = "own" /\ rows[i].actorId = resp.caller)}

\* C14: the effective page is >= 1 and the effective pageSize is in 1..100 (25
\* when absent or not a number, 100 when larger); total counts the matching
\* events, totalPages is ceil(total / pageSize), and the page holds
\* min(pageSize, max(0, total - (page - 1) * pageSize)) items, newest first; 30
\* matching events with pageSize 10 and page 2 give 10 items and 3 pages.
C14_Pagination ==
    (/\ resp.status = 200
     /\ resp.mode \in {"any", "own"}
     /\ [resp.query EXCEPT !.page = ParamAbsent, !.pageSize = ParamAbsent] = NoQuery)
    => /\ resp.page >= 1
       /\ resp.query.page >= 1 => resp.page = resp.query.page
       /\ resp.pageSize \in 1..100
       /\ resp.query.pageSize \in {ParamAbsent, ParamNaN} => resp.pageSize = 25
       /\ resp.query.pageSize > 100 => resp.pageSize = 100
       /\ resp.query.pageSize \in 1..100 => resp.pageSize = resp.query.pageSize
       /\ resp.total = Cardinality(PageMatching)
       /\ resp.totalPages * resp.pageSize >= resp.total
       /\ (resp.totalPages - 1) * resp.pageSize < resp.total
       /\ Len(resp.items)
             = Min(resp.pageSize, Max(0, resp.total - (resp.page - 1) * resp.pageSize))
       /\ resp.mode = "any" =>
             \A j \in DOMAIN resp.items :
                 resp.items[j] = rows[Len(rows) - ((resp.page - 1) * resp.pageSize + j) + 1]
       /\ (resp.total = 30 /\ resp.query.pageSize = 10 /\ resp.query.page = 2)
             => (Len(resp.items) = 10 /\ resp.totalPages = 3)

C14_Witness ==
    /\ resp.status = 200
    /\ resp.mode = "own"
    /\ Len(rows) = 45
    /\ resp.query.pageSize = 10
    /\ resp.query.page = 2
    /\ resp.total = 30
    /\ resp.totalPages = 3
    /\ Len(resp.items) = 10

\* the rows inserted by writeAutoAuditEvent
AutoRows == {i \in DOMAIN rows : rows[i].by = "writeAutoAuditEvent"}

\* action is base, alone or followed by one of the two outcome suffixes
HasBase(action, base) ==
    action \in {base, base \o Suffix_rejected, base \o Suffix_failed}

\* C15 as stated: the base action is created for POST, updated for PUT and PATCH,
\* deleted for DELETE and the lower-cased method for every other method.
C15_BaseActionAsStated ==
    \A i \in AutoRows :
        LET m == toUpperCase(rows[i].method) IN
        HasBase(rows[i].action,
                CASE m = POST -> ToAction_created
                  [] m \in {PUT, PATCH} -> ToAction_updated
                  [] m = DELETE -> ToAction_deleted
                  [] OTHER -> toLowerCase(rows[i].method))

\* C15 amended: the base action is read for GET, created for POST, updated for
\* PUT and PATCH, deleted for DELETE and the lower-cased method for every other
\* method; a 2xx response stores the base action itself.
C15_BaseAction ==
    \A i \in AutoRows :
        LET m == toUpperCase(rows[i].method)
            base == CASE m = GET -> ToAction_read
                      [] m = POST -> ToAction_created
                      [] m \in {PUT, PATCH} -> ToAction_updated
                      [] m = DELETE -> ToAction_deleted
                      [] OTHER -> toLowerCase(rows[i].method)
        IN /\ HasBase(rows[i].action, base)
           /\ rows[i].details.success => rows[i].action = base

C15_Witness ==
    \E i \in AutoRows :
        /\ rows[i].method = GET
        /\ rows[i].details.responseStatus = 400
        /\ rows[i].action = ToAction_read \o Suffix_rejected

\* the base action of a row, from the method it stores
BaseOf(r) ==
    LET m == toUpperCase(r.method) IN
    CASE m = GET -> ToAction_read
      [] m = POST -> ToAction_created
      [] m \in {PUT, PATCH} -> ToAction_updated
      [] m = DELETE -> ToAction_deleted
      [] OTHER -> toLowerCase(r.method)

\* C16 as stated: no suffix for 2xx, _rejected for 4xx, _failed for 5xx, and
\* _failed for 5xx only.
C16_SuffixAsStated ==
    \A i \in AutoRows :
        LET st == rows[i].details.responseStatus IN
        /\ st \in 200..299 => rows[i].action = BaseOf(rows[i])
        /\ st \in 400..499 => rows[i].action = BaseOf(rows[i]) \o Suffix_rejected
        /\ st \in 500..599 => rows[i].action = BaseOf(rows[i]) \o Suffix_failed
        /\ rows[i].action = BaseOf(rows[i]) \o Suffix_failed => st \in 500..599

\* what the deriver stores: no suffix for 2xx, _rejected for 4xx, and _failed for
\* every other status, below 200 and 3xx included
C16_Suffix ==
    \A i \in AutoRows :
        LET st == rows[i].details.responseStatus IN
        rows[i].action =
            IF st \in 200..299 THEN BaseOf(rows[i])
            ELSE IF st \in 400..499 THEN BaseOf(rows[i]) \o Suffix_rejected
            ELSE BaseOf(rows[i]) \o Suffix_failed

C16_Witness ==
    \E i \in AutoRows :
        /\ rows[i].details.responseStatus = 300
        /\ rows[i].method = PUT
        /\ rows[i].action = ToAction_updated \o Suffix_failed

\* the segments of a stored path after the /api/ prefix and the pack segment
RestOf(r) ==
    LET segments == splitSegments(stripApiPrefix(r.path)) IN
    IF segments = <<>> THEN <<>> ELSE Tail(segments)

IsIdSegment(seg) == uuidPattern(seg) \/ numericPattern(seg)

\* C17: the entity of an automatic event whose request carried no body is
\* (singularize(second-to-last), last) when the last segment after the pack is
\* an id with a predecessor, (singularize(last), null) when it is not an id, and
\* (pack name, null) when nothing follows the pack name; the three paths of the
\* spec give contact/123, entry/456 and item/null.
C17_EntityFromPath ==
    \A i \in AutoRows :
        LET r == rows[i]
            rest == RestOf(r)
            n == Len(rest)
        IN /\ (n >= 2 /\ IsIdSegment(rest[n]))
                 => (r.entityKind = singularize(rest[n - 1]) /\ r.entityId = rest[n])
           /\ (n >= 1 /\ ~IsIdSegment(rest[n]))
                 => (r.entityKind = singularize(rest[n]) /\ r.entityId = NullStr)
           /\ (n = 0 /\ splitSegments(stripApiPrefix(r.path)) # <<>>)
                 => (r.entityKind = Head(splitSegments(stripApiPrefix(r.path)))
                     /\ r.entityId = NullStr)
           /\ r.path = Path_contacts_123
                 => (r.entityKind = Kind_contact /\ r.entityId = Id_123)
           /\ r.path = Path_entries_456
                 => (r.entityKind = <<"e","n","t","r","y">> /\ r.entityId = Id_456)
           /\ r.path = Path_folder_items
                 => (r.entityKind = <<"i","t","e","m">> /\ r.entityId = NullStr)
           /\ r.path = Path_contact_uuid
                 => (r.entityKind = Kind_contact /\ r.entityId = Id_uuid)
           /\ r.path = Path_pack
                 => (r.entityKind = <<"c","r","m">> /\ r.entityId = NullStr)

C17_Witness ==
    \E i \in AutoRows :
        /\ rows[i].path = Path_entries_456
        /\ rows[i].entityKind = <<"e","n","t","r","y">>
        /\ rows[i].entityId = Id_456

\* the last path segment of a stored path
LastSegment(r) == RestOf(r)[Len(RestOf(r))]

\* C18: singularize turns a trailing ies into y, else drops the last two
\* characters of a trailing ses, xes or zes, else drops a trailing s that does
\* not follow an s, else leaves the word as it is: companies, boxes, cats and
\* class give company, box, cat and class.
C18_Singularize ==
    \A i \in AutoRows :
        LET r == rows[i] IN
        (RestOf(r) # <<>> /\ ~IsIdSegment(LastSegment(r))) =>
            LET w == LastSegment(r)
                n == Len(w)
                ends(t) == n >= Len(t) /\ SubSeq(w, n - Len(t) + 1, n) = t
            IN /\ r.entityKind =
                     IF ends(<<"i","e","s">>) THEN SubSeq(w, 1, n - 3) \o <<"y">>
                     ELSE IF ends(<<"s","e","s">>) \/ ends(<<"x","e","s">>) \/ ends(<<"z","e","s">>) THEN SubSeq(w, 1, n - 2)
                     ELSE IF ends(<<"s">>) /\ ~ends(<<"s","s">>) THEN SubSeq(w, 1, n - 1)
                     ELSE w
               /\ r.path = Path_companies => r.entityKind = <<"c","o","m","p","a","n","y">>
               /\ r.path = Path_boxes => r.entityKind = <<"b","o","x">>
               /\ r.path = Path_cats => r.entityKind = <<"c","a","t">>
               /\ r.path = Path_class => r.entityKind = <<"c","l","a","s","s">>

C18_Witness ==
    \E i \in AutoRows :
        /\ rows[i].path = Path_class
        /\ rows[i].entityKind = <<"c","l","a","s","s">>

\* what details must hold for a body of the input: nothing for null, the body
\* itself up to 4000 serialized characters, the marker beyond
StoredAs(stored, body) ==
    IF body.t = "null" THEN ~stored.set
    ELSE IF body.size > 4000
    THEN /\ stored.set
         /\ stored.truncated
         /\ stored.originalLength = body.size
         /\ stored.previewLength <= 4000
    ELSE /\ stored.set
         /\ ~stored.truncated
         /\ stored.value = body

\* C19: in the row of a writeAutoAuditEvent call that wrote, details.requestBody
\* and details.responseBody each hold the body unchanged when its serialized
\* length is at most 4000, and otherwise the marker with _truncated,
\* _originalLength = the full length and a preview of at most 4000 characters;
\* each is decided by its own body only.
C19_Truncation ==
    \A c \in Reqs, k \in 1..MaxAuto :
        auFrame[c][k].why = "written" =>
            \E i \in AutoRows :
                /\ rows[i].req = c
                /\ rows[i].details.responseStatus = auFrame[c][k].input.responseStatus
                /\ StoredAs(rows[i].details.requestBody, auFrame[c][k].input.requestBody)
                /\ StoredAs(rows[i].details.responseBody, auFrame[c][k].input.responseBody)

C19_Witness ==
    \E c \in Reqs, k \in 1..MaxAuto, i \in AutoRows :
        /\ auFrame[c][k].why = "written"
        /\ auFrame[c][k].input.requestBody.size = 4001
        /\ auFrame[c][k].input.responseBody.size = 4000
        /\ rows[i].req = c
        /\ rows[i].details.requestBody.truncated
        /\ rows[i].details.requestBody.originalLength = 4001
        /\ rows[i].details.requestBody.previewLength = 4000
        /\ ~rows[i].details.responseBody.truncated
        /\ rows[i].details.responseBody.value.size = 4000

\* C20: details.isSlow is set exactly when the duration given to the call is
\* greater than 500: set for 501, not set for 500 nor for an unknown duration.
C20_IsSlow ==
    \A c \in Reqs, k \in 1..MaxAuto :
        auFrame[c][k].why = "written" =>
            \E i \in AutoRows :
                /\ rows[i].req = c
                /\ rows[i].details.durationMs = auFrame[c][k].input.durationMs
                /\ rows[i].details.isSlow
                      <=> (auFrame[c][k].input.durationMs # NoNum
                           /\ auFrame[c][k].input.durationMs > 500)
                /\ auFrame[c][k].input.durationMs = 501 => rows[i].details.isSlow
                /\ auFrame[c][k].input.durationMs = 500 => ~rows[i].details.isSlow

C20_Witness ==
    \E c \in Reqs, k \in 1..MaxAuto, i \in AutoRows :
        /\ auFrame[c][k].why = "written"
        /\ auFrame[c][k].input.durationMs = 501
        /\ rows[i].req = c
        /\ rows[i].details.durationMs = 501
        /\ rows[i].details.isSlow

\* C21: every row that writeAuditEvent or writeAutoAuditEvent inserts has a
\* non-empty entityKind, a non-empty action and a non-empty summary.
C21_NonEmpty ==
    \A i \in DOMAIN rows :
        /\ rows[i].entityKind \notin {<<>>, NullStr}
        /\ rows[i].action \notin {<<>>, NullStr}
        /\ rows[i].summary \notin {<<>>, NullStr}

\* the automatic event of DELETE /api/crm/s is stored with an empty entityKind
C21_Witness ==
    \E i \in AutoRows :
        /\ rows[i].path = Path_s
        /\ rows[i].entityKind = <<>>
        /\ rows[i].action = ToAction_deleted

\* what does hold: the action and the summary of an automatic event are never
\* empty, and its entityKind is empty only when the last path segment is "s"
C21_AutoFields ==
    \A i \in AutoRows :
        /\ rows[i].action \notin {<<>>, NullStr}
        /\ rows[i].summary \notin {<<>>, NullStr}
        /\ rows[i].entityKind = <<>> => LastSegment(rows[i]) = <<"s">>

\* C22: the table is append-only: every step leaves the rows already stored as
\* they are and in place, a write adds at most one row at the end, and a
\* GET /audit request, scope resolution included, leaves the table unchanged.
C22_AppendOnly ==
    [][/\ Len(rows') >= Len(rows)
       /\ Len(rows') <= Len(rows) + 1
       /\ SubSeq(rows', 1, Len(rows)) = rows
       /\ resp'.status # 0 => rows' = rows]_vars

C22_Witness ==
    /\ Len(rows) >= 2
    /\ rows[1] # rows[2]
    /\ resp.status = 200
    /\ resp.probes >= 1
    /\ Len(resp.items) >= 1

\* a decimal integer, with or without sign and surrounding white space
IsNumeral(text) ==
    LET t == trim(text) IN
    \/ numericPattern(t)
    \/ t # <<>> /\ Head(t) \in {"-", "+"} /\ numericPattern(Tail(t))

ValidDates == {Date_jan03, Date_jan06}

\* the query without its malformed from, to, status, minDuration and maxDuration
\* values; a duration of white space only is dropped when dropBlank is set
StripMalformed(query, dropBlank) ==
    LET keepDuration(v) ==
            \/ v = NullStr
            \/ IsNumeral(v)
            \/ ~dropBlank /\ v # <<>> /\ trim(v) = <<>>
    IN [query EXCEPT
           !.from = IF trim(@) \in ValidDates THEN @ ELSE <<>>,
           !.to = IF trim(@) \in ValidDates THEN @ ELSE <<>>,
           !.status = IF trim(@) \in {Status_4xx, Status_5xx, Status_error} \/ IsNumeral(@)
                      THEN @ ELSE <<>>,
           !.minDuration = IF keepDuration(@) THEN @ ELSE NullStr,
           !.maxDuration = IF keepDuration(@) THEN @ ELSE NullStr]

\* the answer to the request of the response with another query string
AnswerTo(query) ==
    getAuditResponse(ReadRequest(resp.auth, resp.grants, query, resp.orgTable))

\* C23: a from or to value that is not a valid date, a status value that is
\* neither 4xx, 5xx, error nor a number, and a minDuration or maxDuration value
\* that is not a number are ignored: the request succeeds and returns what it
\* returns when those parameters are omitted.
C23_MalformedIgnored ==
    (resp.status # 0 /\ resp.caller \notin {NULL, ""}) =>
        /\ resp.status = 200
        /\ resp.items = AnswerTo(StripMalformed(resp.query, TRUE)).items
        /\ resp.total = AnswerTo(StripMalformed(resp.query, TRUE)).total

\* minDuration=%20 alone hides the events without a duration
C23_Witness ==
    /\ resp.status = 200
    /\ resp.mode = "any"
    /\ resp.query = [NoQuery EXCEPT !.minDuration = Text_blank]
    /\ Len(rows) = 8
    /\ resp.total = 5
    /\ AnswerTo(NoQuery).total = 8

\* what does hold: every malformed value other than a minDuration or maxDuration
\* of white space only is ignored
C23_MalformedIgnoredButBlank ==
    (resp.status # 0 /\ resp.caller \notin {NULL, ""}) =>
        /\ resp.status = 200
        /\ resp.items = AnswerTo(StripMalformed(resp.query, FALSE)).items
        /\ resp.total = AnswerTo(StripMalformed(resp.query, FALSE)).total

\* the stored events whose details.responseStatus satisfies P
WithStatus(P(_)) ==
    {i \in DOMAIN rows :
        /\ rows[i].details.present
        /\ rows[i].details.responseStatus # NoNum
        /\ P(rows[i].details.responseStatus)}

\* the stored events a caller of scope any gets for a status value
SelectedBy(status) ==
    LET answer == getAuditResponse(ReadRequest(AuthHeader("u1"), {scopeKey("read", "any")},
                                               [NoQuery EXCEPT !.status = status], NoOrg))
    IN {i \in DOMAIN rows : \E j \in DOMAIN answer.items : answer.items[j] = rows[i]}

\* C24: the status filter selects exactly the events whose details.responseStatus
\* s satisfies 400 <= s <= 499 for 4xx, s >= 500 for 5xx, s >= 400 for error and
\* s = n for a number n; 4xx and 5xx are disjoint and their union is error.
C24_StatusFilter ==
    (/\ resp.status = 200
     /\ resp.mode = "any"
     /\ [resp.query EXCEPT !.status = <<>>] = NoQuery)
    => LET st == resp.query.status
           got == {i \in DOMAIN rows : \E j \in DOMAIN resp.items : resp.items[j] = rows[i]}
           In4xx(s) == 400 <= s /\ s <= 499
           In5xx(s) == s >= 500
           InError(s) == s >= 400
           Is404(s) == s = 404
           Is500(s) == s = 500
           Is200(s) == s = 200
       IN /\ resp.total = Cardinality(got)
          /\ st = Status_4xx => got = WithStatus(In4xx)
          /\ st = Status_5xx => got = WithStatus(In5xx)
          /\ st = Status_error => got = WithStatus(InError)
          /\ st \in {Text_404, <<" ">> \o Text_404} => got = WithStatus(Is404)
          /\ st = <<"5","0","0">> => got = WithStatus(Is500)
          /\ st = <<"2","0","0">> => got = WithStatus(Is200)
          /\ SelectedBy(Status_4xx) \cap SelectedBy(Status_5xx) = {}
          /\ SelectedBy(Status_4xx) \cup SelectedBy(Status_5xx) = SelectedBy(Status_error)

C24_Witness ==
    /\ resp.status = 200
    /\ resp.mode = "any"
    /\ resp.query = [NoQuery EXCEPT !.status = Status_4xx]
    /\ Len(rows) = 8
    /\ resp.total = 3
    /\ \E i \in DOMAIN rows : rows[i].details.responseStatus = 500
    /\ \E i \in DOMAIN rows : ~rows[i].details.present

Elements(list) == {list[i] : i \in DOMAIN list}

\* C25: when a writeAutoAuditEvent call that was given n >= 1 slow sub-operations
\* inserts its row, details.slowQueries holds min(5, n) of them, sorted by
\* durationMs in descending order, no omitted one is slower than a kept one, and
\* the list the caller passed is as it was.
C25_SlowQueries ==
    [][\A c \in Reqs, k \in 1..MaxAuto :
          (/\ auFrame[c][k].st = "pending"
           /\ auFrame'[c][k].why = "written"
           /\ Len(auFrame[c][k].input.slowQueries) >= 1)
          => LET given == auFrame[c][k].input.slowQueries
                 kept == rows'[Len(rows')].details.slowQueries
             IN /\ Len(rows') = Len(rows) + 1
                /\ Len(kept) = Min(5, Len(given))
                /\ Cardinality(Elements(kept)) = Len(kept)
                /\ Elements(kept) \subseteq Elements(given)
                /\ \A i \in 1..(Len(kept) - 1) : kept[i].durationMs >= kept[i + 1].durationMs
                /\ \A o \in Elements(given) \ Elements(kept), x \in Elements(kept) :
                      o.durationMs <= x.durationMs
                /\ auFrame'[c][k].input.slowQueries = given]_vars

C25_Witness ==
    \E c \in Reqs, k \in 1..MaxAuto, i \in AutoRows :
        /\ auFrame[c][k].why = "written"
        /\ auFrame[c][k].input.slowQueries = SlowQueries(<<5, 60, 10, 50, 20, 40>>)
        /\ rows[i].req = c
        /\ Len(rows[i].details.slowQueries) = 5
        /\ rows[i].details.slowQueries[1].durationMs = 60
        /\ rows[i].details.slowQueries[5].durationMs = 10

\* the innermost scope chain c is in (0: none)
CurrentStore(c) == IF bound[c] = <<>> THEN 0 ELSE bound[c][Len(bound[c])]

\* C26: for each of correlationId, packName, method, path, ipAddress and
\* userAgent, the row writeAuditEvent inserts holds the value of the call's input
\* when the input has one, otherwise the value of the context the call ran in,
\* otherwise null.
C26_ContextDefaults ==
    [][\A c \in Reqs :
          (exFrame[c].st = "insert" /\ exFrame'[c].st = "resolved")
          => LET input == exFrame[c].input
                 row == rows'[Len(rows')]
                 cur == CurrentStore(c)
                 Id(given, inContext) ==
                     IF given # NULL THEN given ELSE IF cur # 0 THEN inContext ELSE NULL
                 Text(given, inContext) ==
                     IF given # NullStr THEN given ELSE IF cur # 0 THEN inContext ELSE NullStr
             IN /\ Len(rows') = Len(rows) + 1
                /\ row.by = "writeAuditEvent"
                /\ row.correlationId = Id(input.correlationId, stores[cur].correlationId)
                /\ row.packName = Id(input.packName, stores[cur].packName)
                /\ row.method = Text(input.method, stores[cur].method)
                /\ row.path = Text(input.path, stores[cur].path)
                /\ row.ipAddress = Id(input.ipAddress, stores[cur].ipAddress)
                /\ row.userAgent = Id(input.userAgent, stores[cur].userAgent)]_vars

\* one event took every field from its input, another took them from the context
C26_Witness ==
    \E i, j \in DOMAIN rows :
        /\ rows[i].by = "writeAuditEvent" /\ rows[j].by = "writeAuditEvent"
        /\ hasAuditContext(1)
        /\ getAuditContext(1).correlationId = "corr-1"
        /\ getAuditContext(1).packName = "crm"
        /\ rows[i].correlationId = "corr-x"
        /\ rows[i].packName = "vault"
        /\ rows[i].method = GET
        /\ rows[i].ipAddress = "10.9.9.9"
        /\ rows[j].correlationId = "corr-1"
        /\ rows[j].packName = "crm"
        /\ rows[j].method = POST
        /\ rows[j].ipAddress = "10.0.0.1"

\* C27: the write counter of a context is 0 when the context is created and
\* grows by exactly one with each row inserted by a call running in that
\* context; no other step changes it: not a failed insert, not a skipped call,
\* not an insert made in another context or outside any.
C27_CounterCountsRows ==
    [][/\ \A id \in DOMAIN stores' \ DOMAIN stores : stores'[id].auditWrites = 0
       /\ \A id \in DOMAIN stores :
             stores'[id].auditWrites =
                 stores[id].auditWrites
                   + (IF /\ Len(rows') = Len(rows) + 1
                         /\ CurrentStore(rows'[Len(rows')].req) = id
                      THEN 1 ELSE 0)]_vars

\* two contexts of one request, one insert in each and one failed insert
C27_Witness ==
    /\ Len(stores) = 2
    /\ stores[1].auditWrites = 1
    /\ stores[2].auditWrites = 1
    /\ Len(rows) = 2
    /\ rows[1].correlationId # rows[2].correlationId

\* C29: withAuditContext binds its function to a new context whose counter is 0,
\* whatever auditWrites the meta carries and whether or not the caller is in a
\* scope already, and leaves the other contexts as they are; outside any scope
\* there is no context, the count reads 0, and an insert changes no counter.
C29_FreshContext ==
    [][\A c \in Reqs :
          /\ Len(bound'[c]) > Len(bound[c])
                => LET id == bound'[c][Len(bound'[c])] IN
                   /\ id \notin DOMAIN stores
                   /\ stores'[id].auditWrites = 0
                   /\ getAuditWrites(c)' = 0
                   /\ \A other \in DOMAIN stores : stores'[other] = stores[other]
          /\ bound[c] = <<>>
                => /\ ~hasAuditContext(c)
                   /\ getAuditWrites(c) = 0
                   /\ (Len(rows') > Len(rows) /\ rows'[Len(rows')].req = c)
                         => stores' = stores]_vars

\* an inner scope whose counter is 0 while the outer one has counted a row
C29_Witness ==
    \E c \in Reqs :
        /\ Len(bound[c]) = 2
        /\ stores[bound[c][1]].auditWrites = 1
        /\ getAuditWrites(c) = 0
        /\ Len(rows) = 1

\* C28: a writeAutoAuditEvent call that starts while another write of the same
\* context is still in flight adds no second row: the context ends with at
\* most one row under every interleaving.
C28_NoSecondRow ==
    \A c \in Reqs : (metaOf[c] # NoMeta /\ overlap[c]) => RowsOf(c) <= 1

\* the explicit insert was still pending when the automatic call read the
\* counter: both rows are stored and the counter ends at 2
C28_Witness ==
    \E c \in Reqs :
        /\ pc[c] = "done"
        /\ overlap[c]
        /\ nEx[c] = 1
        /\ AutoCalls(c) = 1
        /\ auFrame[c][1].writesAtCall = 0
        /\ auFrame[c][1].why = "written"
        /\ RowsOf(c) = 2
        /\ AutoRowsOf(c) = 1
        /\ stores[1].auditWrites = 2

\* the response answers a query of scope any that names a method and nothing
\* else, and the method is that of the request row r was written for, in any
\* letter case
AsksForMethodOf(r) ==
    /\ resp.status = 200
    /\ resp.mode = "any"
    /\ resp.query.method # <<>>
    /\ [resp.query EXCEPT !.method = <<>>] = NoQuery
    /\ toUpperCase(resp.query.method) = toUpperCase(metaOf[r.req].method)

\* C30: an event written by writeAutoAuditEvent for a request of method m is
\* returned to a caller of scope any whose method filter is m, whatever the
\* letter case of m in the context and in the filter.
C30_MethodRoundTrip ==
    \A i \in AutoRows : AsksForMethodOf(rows[i]) => Returned(rows[i])

\* the event of a request whose context method is post is stored with method
\* post and is missing from the answer to method=post
C30_Witness ==
    \E i \in AutoRows :
        /\ rows[i].method = Method_post
        /\ rows[i].action = ToAction_created
        /\ AsksForMethodOf(rows[i])
        /\ resp.query.method = Method_post
        /\ resp.total = 0
        /\ ~Returned(rows[i])

\* what does hold: the event is returned when the method of the context is in
\* upper case, whatever the letter case of the filter
C30_MethodRoundTripUpper ==
    \A i \in AutoRows :
        (AsksForMethodOf(rows[i]) /\ metaOf[rows[i].req].method = toUpperCase(metaOf[rows[i].req].method))
        => Returned(rows[i])

====
